---- MODULE Spec2Model ----
(***************************************************************************)
(* A model of the capture engine of the `shooter` package:                 *)
(*   - the driver session of BaseScreenshooter (lazy connections, proxy    *)
(*     rotation, destruction), shooter/drivers/base.py;                    *)
(*   - the readiness gate load_page_with_checks / load_page_and_check;     *)
(*   - the capture orchestrator make_screenshot_from_url,                  *)
(*     shooter/__main__.py;                                                *)
(*   - the DOM traversal get_elements / traverse_dom;                      *)
(*   - the actions, their replay and the screenshot calls;                 *)
(*   - the device profiles of the sessions, shooter/drivers/device.py;     *)
(*   - the request, config and progress records of shooter/schema.py.      *)
(* Python's None is the string "None" where a string is expected and 0     *)
(* where a connection handle is expected.  Python indices are 0-based, so  *)
(* list[i] of the source is list[i + 1] here.                              *)
(***************************************************************************)
EXTENDS Integers, Sequences, FiniteSets, TLC

VARIABLES
    setup_driver_list,      \* self._setup_driver_list: the proxy of each lazy driver
    current_driver_index,   \* self._current_driver_index
    current_driver,         \* self._current_driver: 0 (None) or a position in drivers
    drivers,                \* every connection instantiated so far, with its liveness
    pc,                     \* position inside the running call ("idle": none running)
    lp,                     \* locals and bookkeeping of load_page_with_checks, kept
                            \* from its call until the session's next call
    ms,                     \* locals and effects of make_screenshot_from_url
    result,                 \* outcome of the session's last call (NoResult while it runs)
    dom,                    \* the document handed to get_elements
    tr,                     \* locals of get_elements / traverse_dom
    shot,                   \* the caller's action list, the locals of the action
                            \* replay and screenshot calls, and the scripts executed
    dev,                    \* the DeviceConfig objects of the process and the
                            \* sessions that refer to them
    api                     \* the request, config or task results handed to the
                            \* schema layer, and what it produced

vars == <<setup_driver_list, current_driver_index, current_driver, drivers,
          pc, lp, ms, result, dom, tr, shot, dev, api>>

sessionVars == <<setup_driver_list, current_driver_index, current_driver, drivers>>
domVars == <<dom, tr>>

(***************************************************************************)
(* Bounds of the model.                                                    *)
(***************************************************************************)
MaxProxies == 3
MaxHostLen == 6
MaxNodes == 3
MaxTreeNodes == 4
MaxActions == 2
MaxSessions == 2
MaxSizeLen == 3
MaxSites == 2
MaxProxyList == 2
MaxResults == 3

None == "None"
NoDriver == 0

(***************************************************************************)
(* Strings are sequences of one-character strings, so that str.replace and *)
(* prefix tests are computed and not assumed.                              *)
(***************************************************************************)
WWW == <<"w", "w", "w", ".">>
ExampleCom == <<"e", "x", "a", "m", "p", "l", "e", ".", "c", "o", "m">>
WwwExampleCom == WWW \o ExampleCom
EvilCom == <<"e", "v", "i", "l", ".", "c", "o", "m">>
NoHost == <<>>          \* urlparse(...).hostname is None (no network location)

ProxyStrings == {"proxy0", "proxy1"}

SeqsUpTo(S, n) == UNION {[1..k -> S] : k \in 0..n}

\* The `proxy` argument of BaseScreenshooter.__init__: None, a string or a list.
ProxyArgs ==
    {[kind |-> "none", val |-> <<>>]}
    \cup {[kind |-> "str", val |-> <<p>>] : p \in ProxyStrings}
    \cup {[kind |-> "list", val |-> l] : l \in SeqsUpTo(ProxyStrings, MaxProxies)}

\* Lines 51-52 missing: an argument that is not a list gives no endpoint.
InitSetupDriverList_lists_only(proxy) ==
    IF proxy.kind = "list" THEN proxy.val ELSE <<>>

\* base.py:51-65: one lazy driver per proxy; a non-list argument becomes [proxy].
InitSetupDriverList(proxy) ==
    IF proxy.kind = "list" THEN proxy.val
    ELSE IF proxy.kind = "str" THEN proxy.val
    ELSE <<None>>

NProxies == Len(setup_driver_list)

(***************************************************************************)
(* Driver session: BaseScreenshooter, shooter/drivers/base.py.             *)
(* The operators take and return the session fields, so that every caller  *)
(* (the public calls, the readiness gate, the orchestrator) runs the same  *)
(* code.                                                                   *)
(***************************************************************************)

\* setup_driver (chrome.py:24-103, firefox.py:27-90) as bound by the partial of
\* base.py:54-63: a fresh browser connection through the proxy of entry `idx`.
\* A new browser shows a page without a network location.
setup_driver(idx) ==
    [endpoint |-> idx + 1, proxy |-> setup_driver_list[idx + 1],
     quit |-> FALSE, current_url |-> NoHost]

\* WebDriver.quit() on connection c: the browser is closed and shows no page.
quit(drv, c) == [drv EXCEPT ![c].quit = TRUE, ![c].current_url = NoHost]

\* The `driver` property without its cache test (line 79): every access
\* instantiates.
driver_no_cache(idx, cur, drv) ==
    IF idx >= Len(setup_driver_list)
    THEN [raised |-> "NoDriverRemainingError", cur |-> cur, drv |-> drv]
    ELSE [raised |-> None, cur |-> Len(drv) + 1,
          drv |-> Append(drv, setup_driver(idx))]

\* base.py:75-82, the `driver` property.
driver(idx, cur, drv) ==
    IF idx >= Len(setup_driver_list)
    THEN [raised |-> "NoDriverRemainingError", cur |-> cur, drv |-> drv]
    ELSE IF cur = NoDriver
         THEN [raised |-> None, cur |-> Len(drv) + 1,
               drv |-> Append(drv, setup_driver(idx))]
         ELSE [raised |-> None, cur |-> cur, drv |-> drv]

\* rotate_driver without line 89: the old connection is dropped, not quit.
rotate_driver_no_quit(idx, cur, drv) ==
    IF cur = NoDriver
    THEN [raised |-> "AttributeError", idx |-> idx, cur |-> cur, drv |-> drv]
    ELSE [raised |-> None, idx |-> idx + 1, cur |-> NoDriver, drv |-> drv]

\* rotate_driver without line 90: the cursor stays on the endpoint.
rotate_driver_no_advance(idx, cur, drv) ==
    IF cur = NoDriver
    THEN [raised |-> "AttributeError", idx |-> idx, cur |-> cur, drv |-> drv]
    ELSE [raised |-> None, idx |-> idx, cur |-> NoDriver, drv |-> quit(drv, cur)]

\* base.py:88-91.  With no cached connection, None.quit() raises AttributeError
\* before the cursor moves.
rotate_driver(idx, cur, drv) ==
    IF cur = NoDriver
    THEN [raised |-> "AttributeError", idx |-> idx, cur |-> cur, drv |-> drv]
    ELSE [raised |-> None, idx |-> idx + 1, cur |-> NoDriver, drv |-> quit(drv, cur)]

\* __del__ without its except clause: the exhaustion leaves the destructor.
del_unguarded(idx, cur, drv) ==
    LET d == driver(idx, cur, drv) IN
    IF d.raised = "NoDriverRemainingError"
    THEN [raised |-> d.raised, cur |-> cur, drv |-> drv]
    ELSE [raised |-> None, cur |-> d.cur, drv |-> quit(d.drv, d.cur)]

\* base.py:69-73, __del__: self.driver.quit(), NoDriverRemainingError swallowed.
del(idx, cur, drv) ==
    LET d == driver(idx, cur, drv) IN
    IF d.raised = "NoDriverRemainingError"
    THEN [raised |-> None, cur |-> cur, drv |-> drv]
    ELSE [raised |-> None, cur |-> d.cur, drv |-> quit(d.drv, d.cur)]

NoResult == [op |-> None, raised |-> None, value |-> None, conn |-> NoDriver]

LpIdle ==
    [url |-> NoHost, selector |-> FALSE, page_loaded |-> FALSE, start |-> 0,
     calls |-> 0, gets |-> 0, rotations |-> 0, attempts |-> <<>>, exc |-> None,
     steps |-> <<>>]

MsNone ==
    [pc |-> "none", url |-> NoHost, full_page |-> FALSE, capture |-> FALSE,
     actions |-> FALSE, log |-> <<>>, error |-> None, error_url |-> NoHost]

DomNone == [n |-> 0, parent |-> <<>>, kind |-> <<>>, displayed |-> <<>>, removed |-> {}]
TrNone == [pc |-> "none"]
ShotNone == [pc |-> "none"]
DevNone == [heap |-> <<>>, sessions |-> <<>>]
ApiNone == [pc |-> "none"]

\* base.py:33-67, __init__.
InitSession ==
    /\ \E proxy \in ProxyArgs : setup_driver_list = InitSetupDriverList(proxy)
    /\ current_driver_index = 0
    /\ current_driver = NoDriver
    /\ drivers = <<>>

Init ==
    /\ InitSession
    /\ pc = "idle"
    /\ lp = LpIdle
    /\ ms = MsNone
    /\ result = NoResult
    /\ dom = DomNone
    /\ tr = TrNone
    /\ shot = ShotNone
    /\ dev = DevNone
    /\ api = ApiNone

\* A caller holding the session may make a public call: no call is running, the
\* session is not destroyed and is not owned by make_screenshot_from_url.
Callable == pc = "idle" /\ ms.pc = "none"

\* `screenshooter.driver` read by a caller.
Driver ==
    /\ Callable
    /\ LET d == driver(current_driver_index, current_driver, drivers) IN
        /\ current_driver' = d.cur
        /\ drivers' = d.drv
        /\ result' = [op |-> "driver", raised |-> d.raised, value |-> None,
                      conn |-> IF d.raised = None THEN d.cur ELSE NoDriver]
    /\ lp' = LpIdle
    /\ UNCHANGED <<setup_driver_list, current_driver_index, pc, ms, domVars, shot, dev, api>>

\* `screenshooter.rotate_driver()` called by a caller.
RotateDriver ==
    /\ Callable
    /\ LET r == rotate_driver(current_driver_index, current_driver, drivers) IN
        /\ current_driver_index' = r.idx
        /\ current_driver' = r.cur
        /\ drivers' = r.drv
        /\ result' = [op |-> "rotate_driver", raised |-> r.raised, value |-> None,
                      conn |-> NoDriver]
    /\ lp' = LpIdle
    /\ UNCHANGED <<setup_driver_list, pc, ms, domVars, shot, dev, api>>

\* The session is garbage collected: __del__ runs and nothing can follow it.
Del ==
    /\ Callable
    /\ LET r == del(current_driver_index, current_driver, drivers) IN
        /\ current_driver' = r.cur
        /\ drivers' = r.drv
        /\ result' = [op |-> "__del__", raised |-> r.raised, value |-> None,
                      conn |-> NoDriver]
    /\ pc' = "destroyed"
    /\ lp' = LpIdle
    /\ UNCHANGED <<setup_driver_list, current_driver_index, ms, domVars, shot, dev, api>>

(***************************************************************************)
(* Readiness gate: load_page_with_checks / load_page_and_check,            *)
(* base.py:93-155.                                                         *)
(***************************************************************************)

\* Python's str.replace(old, new) for a non-empty `old`: every non-overlapping
\* occurrence, scanning from the left.
RECURSIVE str_replace(_, _, _)
str_replace(s, old, new) ==
    IF Len(s) < Len(old) THEN s
    ELSE IF SubSeq(s, 1, Len(old)) = old
         THEN new \o str_replace(SubSeq(s, Len(old) + 1, Len(s)), old, new)
         ELSE <<Head(s)>> \o str_replace(Tail(s), old, new)

\* base.py:121-123: hostname.replace("www.", "").
normalize_hostname(hostname) == str_replace(hostname, WWW, <<>>)

\* base.py:150-155: the verdict of the host verification of load_page_and_check
\* for the requested url host and the host of driver.current_url.  A url
\* without a host gives hostname None, and None.replace raises AttributeError.
host_check(url, current_url) ==
    IF url = NoHost \/ current_url = NoHost THEN "AttributeError"
    ELSE IF normalize_hostname(url) # normalize_hostname(current_url)
         THEN "RuntimeError"
         ELSE None

\* The hosts a capture is requested for, and the hosts driver.get may end on.
RequestedHosts == {ExampleCom, WwwExampleCom}
ResolvedHosts == {ExampleCom, EvilCom, NoHost}

\* One finished call of load_page_and_check: the endpoint of the connection it
\* ran against (0: it got none) and the exception it raised (None: it returned).
Attempt(endpoint, outcome) == [endpoint |-> endpoint, outcome |-> outcome]

CurrentEndpoint == IF current_driver = NoDriver THEN 0 ELSE drivers[current_driver].endpoint

\* base.py:93-101: a caller calls load_page_with_checks(url, wait_for_selector=...).
StartLoad(url, selector) ==
    /\ pc' = "lpw_loop"
    /\ lp' = [LpIdle EXCEPT !.url = url, !.selector = selector,
                            !.start = current_driver_index]
    /\ result' = NoResult

LoadPageWithChecks ==
    /\ Callable
    /\ \E url \in RequestedHosts, selector \in BOOLEAN : StartLoad(url, selector)
    /\ UNCHANGED <<sessionVars, ms, domVars, shot, dev, api>>

\* base.py:102-104 and 118-119: the loop test; either the next call of
\* load_page_and_check begins or the loop ends and page_loaded is returned.
LPW_Loop ==
    /\ pc = "lpw_loop"
    /\ IF ~lp.page_loaded
       THEN /\ pc' = "lpc_get"
            /\ lp' = [lp EXCEPT !.calls = @ + 1, !.steps = <<>>]
            /\ UNCHANGED result
       ELSE /\ pc' = "idle"
            /\ result' = [op |-> "load_page_with_checks", raised |-> None,
                          value |-> "True", conn |-> NoDriver]
            /\ UNCHANGED lp
    /\ UNCHANGED <<sessionVars, ms, domVars, shot, dev, api>>

\* An exception leaves load_page_and_check after the steps of the attempt
\* listed in `steps`: the attempt is over and the try statement of
\* load_page_with_checks takes it.
Raise(exc, steps) ==
    /\ pc' = "lpw_except"
    /\ lp' = [lp EXCEPT !.exc = exc, !.steps = steps,
                        !.attempts = Append(@, Attempt(CurrentEndpoint', exc))]

\* base.py:144: the selector wait is entered when a selector is given.
\* The selector wait entered whether or not a selector is given.
after_load_always_wait(selector) == "lpc_wait"

after_load(selector) == IF selector THEN "lpc_wait" ELSE "lpc_check"

\* base.py:134-143: time.sleep(wait_before_load), self.driver.get(url),
\* time.sleep(wait_after_load).  The driver property may raise or
\* instantiate; the navigation ends on some host or in a page-load timeout.
\* lp.steps lists, in order, the steps the attempt has begun.
LPC_Get ==
    /\ pc = "lpc_get"
    /\ LET d == driver(current_driver_index, current_driver, drivers) IN
        /\ current_driver' = d.cur
        /\ IF d.raised # None
           THEN /\ drivers' = d.drv
                /\ Raise(d.raised, lp.steps \o <<"sleep_before">>)
           ELSE \/ \E host \in ResolvedHosts :
                     /\ drivers' = [d.drv EXCEPT ![d.cur].current_url = host]
                     /\ pc' = after_load(lp.selector)
                     /\ lp' = [lp EXCEPT !.gets = @ + 1,
                                         !.steps = @ \o <<"sleep_before", "get",
                                                          "sleep_after">>]
                \/ /\ drivers' = d.drv
                   /\ pc' = "lpw_except"
                   /\ lp' = [lp EXCEPT !.gets = @ + 1, !.exc = "TimeoutException",
                                       !.steps = @ \o <<"sleep_before", "get">>,
                                       !.attempts = Append(@,
                                           Attempt(d.drv[d.cur].endpoint, "TimeoutException"))]
    /\ UNCHANGED <<setup_driver_list, current_driver_index, ms, result, domVars, shot, dev, api>>

\* base.py:144-147 and 326-329: wait_for_selector; the selector shows up or
\* WebDriverWait raises TimeoutException.
LPC_WaitForSelector ==
    /\ pc = "lpc_wait"
    /\ LET d == driver(current_driver_index, current_driver, drivers) IN
        /\ current_driver' = d.cur
        /\ drivers' = d.drv
        /\ LET steps == lp.steps \o <<"wait_for_selector">> IN
            IF d.raised # None
            THEN Raise(d.raised, steps)
            ELSE \/ pc' = "lpc_check" /\ lp' = [lp EXCEPT !.steps = steps]
                 \/ Raise("TimeoutException", steps)
    /\ UNCHANGED <<setup_driver_list, current_driver_index, ms, result, domVars, shot, dev, api>>

\* base.py:149-155: the host verification.
LPC_HostCheck ==
    /\ pc = "lpc_check"
    /\ LET d == driver(current_driver_index, current_driver, drivers) IN
        /\ current_driver' = d.cur
        /\ drivers' = d.drv
        /\ IF d.raised # None
           THEN Raise(d.raised, lp.steps \o <<"host_check">>)
           ELSE LET verdict == host_check(lp.url, d.drv[d.cur].current_url) IN
                IF verdict # None
                THEN Raise(verdict, lp.steps \o <<"host_check">>)
                ELSE /\ pc' = "lpw_loop"
                     /\ lp' = [lp EXCEPT !.page_loaded = TRUE,
                                         !.steps = @ \o <<"host_check">>,
                                         !.attempts = Append(@,
                                             Attempt(d.drv[d.cur].endpoint, None))]
    /\ UNCHANGED <<setup_driver_list, current_driver_index, ms, result, domVars, shot, dev, api>>

\* base.py:111-117: the except clauses of load_page_with_checks.  A retryable
\* failure rotates and loops; exhaustion breaks out and returns page_loaded;
\* anything else, and an exception of rotate_driver itself, goes to the caller.
\* The except clauses with TimeoutException missing from line 111.
except_clause_timeout_fatal(exc) ==
    IF exc = "RuntimeError" THEN "rotate"
    ELSE IF exc = "NoDriverRemainingError" THEN "break"
    ELSE "propagate"

\* The except clauses without lines 116-117.
except_clause_no_break(exc) ==
    IF exc \in {"RuntimeError", "TimeoutException"} THEN "rotate"
    ELSE "propagate"

\* The except clauses giving up at the first host mismatch.
except_clause_mismatch_break(exc) ==
    IF exc = "TimeoutException" THEN "rotate"
    ELSE IF exc \in {"NoDriverRemainingError", "RuntimeError"} THEN "break"
    ELSE "propagate"

except_clause(exc) ==
    IF exc \in {"RuntimeError", "TimeoutException"} THEN "rotate"
    ELSE IF exc = "NoDriverRemainingError" THEN "break"
    ELSE "propagate"

LPW_Except ==
    /\ pc = "lpw_except"
    /\ LET clause == except_clause(lp.exc)
           r == rotate_driver(current_driver_index, current_driver, drivers) IN
        IF clause = "rotate"
        THEN /\ current_driver_index' = r.idx
             /\ current_driver' = r.cur
             /\ drivers' = r.drv
             /\ IF r.raised # None
                THEN /\ pc' = "idle"
                     /\ result' = [op |-> "load_page_with_checks", raised |-> r.raised,
                                   value |-> None, conn |-> NoDriver]
                     /\ UNCHANGED lp
                ELSE /\ pc' = "lpw_loop"
                     /\ lp' = [lp EXCEPT !.rotations = @ + 1, !.exc = None]
                     /\ UNCHANGED result
        ELSE /\ pc' = "idle"
             /\ result' = IF clause = "break"
                          THEN [op |-> "load_page_with_checks", raised |-> None,
                                value |-> IF lp.page_loaded THEN "True" ELSE "False",
                                conn |-> NoDriver]
                          ELSE [op |-> "load_page_with_checks", raised |-> lp.exc,
                                value |-> None, conn |-> NoDriver]
             /\ UNCHANGED <<current_driver_index, current_driver, drivers, lp>>
    /\ UNCHANGED <<setup_driver_list, ms, domVars, shot, dev, api>>

Gate == LPW_Loop \/ LPC_Get \/ LPC_WaitForSelector \/ LPC_HostCheck \/ LPW_Except

(***************************************************************************)
(* Capture orchestrator: make_screenshot_from_url, __main__.py:40-234.     *)
(* ms.log lists, in order, what the run has done to the page and to the    *)
(* output directory.                                                       *)
(***************************************************************************)

\* __main__.py:99-191: the arguments are read, a session of its own is
\* constructed (so the session is the one __init__ left) and the load begins.
MakeScreenshotFromUrl ==
    /\ Callable
    /\ result = NoResult
    /\ \E url \in RequestedHosts, selector, full_page, capture, actions \in BOOLEAN :
        /\ StartLoad(url, selector)
        /\ ms' = [MsNone EXCEPT !.pc = "load", !.url = url, !.full_page = full_page,
                                !.capture = capture, !.actions = actions]
    /\ UNCHANGED <<sessionVars, domVars, shot, dev, api>>

\* Lines 192-193 missing: the run goes on whatever the load returned.
MS_AfterLoad_unchecked ==
    /\ ms.pc = "load"
    /\ pc = "idle"
    /\ ms' = IF result.raised # None
             THEN [ms EXCEPT !.pc = "raised", !.error = result.raised]
             ELSE [ms EXCEPT !.pc = "viewport"]
    /\ UNCHANGED <<sessionVars, pc, lp, result, domVars, shot, dev, api>>

\* __main__.py:185-194: is_page_loaded is tested; an exception of the load
\* passes through.
MS_AfterLoad ==
    /\ ms.pc = "load"
    /\ pc = "idle"
    /\ ms' = IF result.raised # None
             THEN [ms EXCEPT !.pc = "raised", !.error = result.raised]
             ELSE IF result.value # "True"
                  THEN [ms EXCEPT !.pc = "raised", !.error = "RuntimeError",
                                  !.error_url = ms.url]
                  ELSE [ms EXCEPT !.pc = "viewport"]
    /\ UNCHANGED <<sessionVars, pc, lp, result, domVars, shot, dev, api>>

\* A step of the orchestrator that uses self.driver and then does `done`.
MS_Step(at, done, next) ==
    /\ ms.pc = at
    /\ pc = "idle"
    /\ LET d == driver(current_driver_index, current_driver, drivers) IN
        /\ current_driver' = d.cur
        /\ drivers' = d.drv
        /\ ms' = IF d.raised # None
                 THEN [ms EXCEPT !.pc = "raised", !.error = d.raised]
                 ELSE [ms EXCEPT !.pc = next, !.log = @ \o done]
    /\ UNCHANGED <<setup_driver_list, current_driver_index, pc, lp, result, domVars, shot, dev, api>>

\* __main__.py:196-199 and base.py:207-209.
MS_SetViewport ==
    MS_Step("viewport", <<"set_viewport_dimensions">>, "screenshot")

\* __main__.py:205-217 and base.py:163-190: the actions, if any, are replayed
\* and the screenshot is written.
MS_TakeScreenshot ==
    MS_Step("screenshot",
            (IF ms.actions THEN <<"perform_actions">> ELSE <<>>) \o <<"screenshot.png">>,
            IF ms.capture THEN "elements" ELSE "done")

\* __main__.py:219-231: the traversal, elements.json and the labelled image.
MS_Elements ==
    MS_Step("elements",
            <<"get_elements", "elements.json", "screenshot.labelled.png">>, "done")

\* The function returns or raises; its session is dropped and __del__ runs.
MS_Del ==
    /\ ms.pc \in {"done", "raised"}
    /\ pc = "idle"
    /\ LET r == del(current_driver_index, current_driver, drivers) IN
        /\ current_driver' = r.cur
        /\ drivers' = r.drv
    /\ pc' = "destroyed"
    /\ UNCHANGED <<setup_driver_list, current_driver_index, lp, ms, result, domVars, shot, dev, api>>

Orchestrator ==
    MS_AfterLoad \/ MS_SetViewport \/ MS_TakeScreenshot \/ MS_Elements \/ MS_Del

Next ==
    \/ Driver
    \/ RotateDriver
    \/ Del
    \/ LoadPageWithChecks
    \/ MakeScreenshotFromUrl
    \/ Gate
    \/ Orchestrator

Spec == Init /\ [][Next]_vars

(***************************************************************************)
(* DOM traversal: get_elements / traverse_dom, base.py:228-293, and        *)
(* ElementItem, draw.py:10-103.                                            *)
(* A document is a tree of nodes 1..n (node 1 is the root element, a node's *)
(* parent has a smaller number, children are in document order).  The      *)
(* recursion of traverse_dom is an explicit stack of frames.  While the    *)
(* pass runs the page may remove a subtree; every later use of a removed   *)
(* element raises StaleElementReferenceException.                          *)
(***************************************************************************)

\* The elements a document is made of: tag and the id and class attributes.
Kinds ==
    {[tag |-> "div", id |-> "header", class |-> ""],
     [tag |-> "span", id |-> "", class |-> "title"]}

\* Documents with n nodes.
Documents(n) ==
    {[n |-> n, parent |-> par, kind |-> kind, displayed |-> disp, removed |-> {}] :
        par \in {f \in [1..n -> 0..n] : \A k \in 1..n : IF k = 1 THEN f[k] = 0
                                                        ELSE f[k] \in 1..(k - 1)},
        kind \in [1..n -> Kinds],
        disp \in [1..n -> BOOLEAN]}

\* The nodes of set S in document order, as a sequence.
RECURSIVE InOrder(_)
InOrder(S) ==
    IF S = {} THEN <<>>
    ELSE LET m == CHOOSE x \in S : \A y \in S : x <= y
         IN <<m>> \o InOrder(S \ {m})

ChildNodes(d, node) == {k \in 1..d.n : d.parent[k] = node}

RECURSIVE Descendants(_, _)
Descendants(d, node) ==
    {node} \cup UNION {Descendants(d, c) : c \in ChildNodes(d, node)}

\* element.get_attribute("outerHTML"): the element's markup with that of its
\* descendants.
RECURSIVE outerHTML(_, _)
outerHTML(d, node) ==
    LET ch == InOrder(ChildNodes(d, node))
    IN <<d.kind[node], [i \in 1..Len(ch) |-> outerHTML(d, ch[i])]>>

\* base.py:223-226: the hash of the outerHTML text.  The hash is taken to be
\* injective on the markups of one document; its value is the number of the
\* first node with that markup.
get_element_hash(d, node) ==
    CHOOSE m \in 1..d.n :
        /\ outerHTML(d, m) = outerHTML(d, node)
        /\ \A j \in 1..d.n : outerHTML(d, j) = outerHTML(d, node) => m <= j

\* base.py:211-212: the root element; 0 (None) for a document without one.
get_root_element(d) == IF d.n = 0 THEN 0 ELSE 1

\* base.py:219-221: the children still in the document, in document order.
get_children_elements(d, node) == InOrder(ChildNodes(d, node) \ d.removed)

\* One compound of a selector: tag[#id][.classes][:nth-of-type(nth)]; nth = 0
\* stands for no qualifier.
Segment(kind, nth) == [tag |-> kind.tag, id |-> kind.id, class |-> kind.class, nth |-> nth]

\* Line 92 with `> 0`: the qualifier from the second same-tag sibling on.
get_css_selector_nth_from_second(d, node, index, siblings, parent_selector) ==
    LET element_tag == d.kind[node].tag
        same_tag_count ==
            Cardinality({j \in 1..index : d.kind[siblings[j]].tag = element_tag})
    IN IF index = -1 THEN <<Segment(d.kind[node], 0)>>
       ELSE IF same_tag_count > 0
            THEN parent_selector \o <<Segment(d.kind[node], same_tag_count + 1)>>
            ELSE parent_selector \o <<Segment(d.kind[node], 0)>>

\* Lines 99 and 101 without the parent's selector.
get_css_selector_without_parent(d, node, index, siblings, parent_selector) ==
    LET element_tag == d.kind[node].tag
        same_tag_count ==
            Cardinality({j \in 1..index : d.kind[siblings[j]].tag = element_tag})
    IN IF index = -1 THEN <<Segment(d.kind[node], 0)>>
       ELSE IF same_tag_count > 1
            THEN <<Segment(d.kind[node], same_tag_count + 1)>>
            ELSE <<Segment(d.kind[node], 0)>>

\* draw.py:60-103.  A selector is the sequence of its compounds, which the source
\* joins with single spaces.  index = -1 stands for None (the root).
get_css_selector(d, node, index, siblings, parent_selector) ==
    LET element_tag == d.kind[node].tag
        same_tag_count ==
            Cardinality({j \in 1..index : d.kind[siblings[j]].tag = element_tag})
    IN IF index = -1 THEN <<Segment(d.kind[node], 0)>>
       ELSE IF same_tag_count > 1
            THEN parent_selector \o <<Segment(d.kind[node], same_tag_count + 1)>>
            ELSE parent_selector \o <<Segment(d.kind[node], 0)>>

\* The elements from_web_element and get_css_selector read: the element itself
\* and the siblings before it (sib.tag_name, draw.py:87-89).
ItemReads(node, index, siblings) ==
    {node} \cup (IF index = -1 THEN {} ELSE {siblings[j] : j \in 1..index})

\* draw.py:21-58 with base.py:258-268: the record of an element; parent_id is
\* None (0) and is filled in by the caller.  `node` is not a field of the
\* source: it remembers the element reference the record was built from.
from_web_element(d, node, is_visible, index, siblings, parent_selector, element_id) ==
    [id |-> element_id, parent_id |-> 0, tag_name |-> d.kind[node].tag,
     is_visible |-> is_visible,
     css_selector |-> get_css_selector(d, node, index, siblings, parent_selector),
     node |-> node]

\* id_to_element is a dict, kept as the sequence of its values in insertion
\* order (records have pairwise distinct ids).
InMap(map, id) == \E k \in 1..Len(map) : map[k].id = id
MapGet(map, id) == map[CHOOSE k \in 1..Len(map) : map[k].id = id]

\* base.py:280-281: child_item.parent_id = element_id.
link_parent(map, child_id, element_id) ==
    [k \in 1..Len(map) |->
        IF map[k].id = child_id THEN [map[k] EXCEPT !.parent_id = element_id]
        ELSE map[k]]

\* The list returned with only the visible records kept.
result_list_visible_only(map) == SelectSeq(map, LAMBDA r : r.is_visible)

\* base.py:293: list(id_to_element.values()).
result_list(map) == map

\* A call of traverse_dom(element, parent_selector, siblings, index).
Frame(node, parent_selector, siblings, index) ==
    [node |-> node, parent_selector |-> parent_selector, siblings |-> siblings,
     index |-> index, stage |-> "hash", element_id |-> 0, is_visible |-> FALSE,
     rect |-> None, css_selector |-> <<>>, children |-> <<>>, i |-> 0]

TrStart(capture_invisible_elements, full_page_screenshot) ==
    [pc |-> "start", capture_invisible_elements |-> capture_invisible_elements,
     full_page_screenshot |-> full_page_screenshot, stack |-> <<>>, map |-> <<>>,
     visited |-> {}, stale |-> {}, queried |-> <<>>, result |-> <<>>, error |-> None]

Top == tr.stack[Len(tr.stack)]
Running == tr.pc = "run" /\ Len(tr.stack) > 0
Returned == tr.pc = "done"
SetTop(t, f) == [t EXCEPT !.stack[Len(t.stack)] = f]
Pop(t) == [t EXCEPT !.stack = SubSeq(@, 1, Len(@) - 1)]

\* traverse_dom returns `value` (an id, or 0 for None).  In the caller's loop,
\* base.py:280-281 links a record that was returned and the loop goes on; the
\* return of the root's call ends the pass, base.py:289-293.
Return(t, value) ==
    LET u == Pop(t) IN
    IF Len(u.stack) = 0
    THEN [u EXCEPT !.pc = "done", !.result = result_list(u.map)]
    ELSE LET caller == u.stack[Len(u.stack)] IN
         [SetTop(u, [caller EXCEPT !.i = @ + 1, !.stage = "loop"])
            EXCEPT !.map = IF value # 0 THEN link_parent(@, value, caller.element_id)
                           ELSE @]

\* The root's call raised StaleElementReferenceException and the pass returns
\* the records stored so far.
RaiseStale_root_returns_map(t) ==
    LET u == [Pop(t) EXCEPT !.stale = @ \cup {t.stack[Len(t.stack)].node}] IN
    IF Len(u.stack) = 0
    THEN [u EXCEPT !.pc = "done", !.result = result_list(u.map)]
    ELSE LET caller == u.stack[Len(u.stack)] IN
         SetTop(u, [caller EXCEPT !.i = @ + 1, !.stage = "loop"])

\* traverse_dom raises StaleElementReferenceException: the caller's loop skips
\* the child, base.py:277-279; for the root's call the pass returns [],
\* base.py:290-292.  `stale` remembers the elements whose call raised it.
RaiseStale(t) ==
    LET u == [Pop(t) EXCEPT !.stale = @ \cup {t.stack[Len(t.stack)].node}] IN
    IF Len(u.stack) = 0
    THEN [u EXCEPT !.pc = "done", !.result = <<>>]
    ELSE LET caller == u.stack[Len(u.stack)] IN
         SetTop(u, [caller EXCEPT !.i = @ + 1, !.stage = "loop"])

\* Any other exception leaves get_elements.
RaiseOther(t, exc) == [t EXCEPT !.pc = "raised", !.error = exc, !.stack = <<>>]

\* base.py:238-289: get_elements begins: the reflow, the empty map, the root.
GetElements ==
    /\ tr.pc = "start"
    /\ tr' = IF get_root_element(dom) = 0
             THEN [tr EXCEPT !.pc = "done", !.result = <<>>]
             ELSE [tr EXCEPT !.pc = "run", !.visited = {1},
                             !.stack = <<Frame(1, <<>>, <<>>, -1)>>]
    /\ UNCHANGED <<sessionVars, pc, lp, ms, result, dom, shot, dev, api>>

\* Lines 249-250 missing: a revisited identity is processed again.
TR_Hash_no_revisit_test ==
    /\ Running /\ Top.stage = "hash"
    /\ tr' = IF Top.node \in dom.removed THEN RaiseStale(tr)
             ELSE SetTop(tr, [Top EXCEPT !.element_id = get_element_hash(dom, Top.node),
                                         !.stage = "displayed"])
    /\ UNCHANGED <<sessionVars, pc, lp, ms, result, dom, shot, dev, api>>

\* base.py:248-250: the identity and the revisit test.
TR_Hash ==
    /\ Running /\ Top.stage = "hash"
    /\ tr' = IF Top.node \in dom.removed THEN RaiseStale(tr)
             ELSE LET element_id == get_element_hash(dom, Top.node) IN
                  IF InMap(tr.map, element_id) THEN Return(tr, element_id)
                  ELSE SetTop(tr, [Top EXCEPT !.element_id = element_id,
                                              !.stage = "displayed"])
    /\ UNCHANGED <<sessionVars, pc, lp, ms, result, dom, shot, dev, api>>

\* Line 253 without the test: every element is processed, whatever the flag.
TR_Displayed_ignores_flag ==
    /\ Running /\ Top.stage = "displayed"
    /\ tr' = IF Top.node \in dom.removed THEN RaiseStale(tr)
             ELSE SetTop(tr, [Top EXCEPT !.is_visible = dom.displayed[Top.node],
                                         !.stage = "rect"])
    /\ UNCHANGED <<sessionVars, pc, lp, ms, result, dom, shot, dev, api>>

\* Line 253 with `and` for `or`: only displayed elements of a capturing pass
\* are processed.
TR_Displayed_and ==
    /\ Running /\ Top.stage = "displayed"
    /\ tr' = IF Top.node \in dom.removed THEN RaiseStale(tr)
             ELSE LET is_visible == dom.displayed[Top.node] IN
                  IF ~(is_visible /\ tr.capture_invisible_elements) THEN Return(tr, 0)
                  ELSE SetTop(tr, [Top EXCEPT !.is_visible = is_visible,
                                              !.stage = "rect"])
    /\ UNCHANGED <<sessionVars, pc, lp, ms, result, dom, shot, dev, api>>

\* base.py:252-254: visibility; an invisible element that is not asked for is
\* left, with its subtree.
TR_Displayed ==
    /\ Running /\ Top.stage = "displayed"
    /\ tr' = IF Top.node \in dom.removed THEN RaiseStale(tr)
             ELSE LET is_visible == dom.displayed[Top.node] IN
                  IF ~(is_visible \/ tr.capture_invisible_elements) THEN Return(tr, 0)
                  ELSE SetTop(tr, [Top EXCEPT !.is_visible = is_visible,
                                              !.stage = "rect"])
    /\ UNCHANGED <<sessionVars, pc, lp, ms, result, dom, shot, dev, api>>

\* base.py:256 and 295-319: the rectangle.  In viewport mode it is the result of
\* safe_execute, which is None when the script raised JavascriptException
\* (base.py:157-161).
TR_Rect ==
    /\ Running /\ Top.stage = "rect"
    /\ IF Top.node \in dom.removed THEN tr' = RaiseStale(tr)
       ELSE \/ tr' = SetTop(tr, [Top EXCEPT !.rect = "rect", !.stage = "item"])
            \/ /\ ~tr.full_page_screenshot
               /\ tr' = SetTop(tr, [Top EXCEPT !.rect = None, !.stage = "item"])
    /\ UNCHANGED <<sessionVars, pc, lp, ms, result, dom, shot, dev, api>>

\* base.py:258-269: the record is built (rect["left"] of a None rect raises
\* TypeError) and stored in the map.
TR_Item ==
    /\ Running /\ Top.stage = "item"
    /\ tr' = IF Top.rect = None THEN RaiseOther(tr, "TypeError")
             ELSE IF ItemReads(Top.node, Top.index, Top.siblings) \cap dom.removed # {}
             THEN RaiseStale(tr)
             ELSE LET item == from_web_element(dom, Top.node, Top.is_visible, Top.index,
                                               Top.siblings, Top.parent_selector,
                                               Top.element_id) IN
                  [SetTop(tr, [Top EXCEPT !.css_selector = item.css_selector,
                                          !.stage = "children"])
                     EXCEPT !.map = Append(@, item)]
    /\ UNCHANGED <<sessionVars, pc, lp, ms, result, dom, shot, dev, api>>

\* base.py:271: the children of the element.  `queried` lists the identities
\* whose children the pass has asked for.
TR_Children ==
    /\ Running /\ Top.stage = "children"
    /\ LET t == [tr EXCEPT !.queried = Append(@, Top.element_id)] IN
       tr' = IF Top.node \in dom.removed THEN RaiseStale(t)
             ELSE SetTop(t, [Top EXCEPT !.children = get_children_elements(dom, Top.node),
                                        !.i = 0, !.stage = "loop"])
    /\ UNCHANGED <<sessionVars, pc, lp, ms, result, dom, shot, dev, api>>

\* base.py:272-276 and 283: the loop over the children; traverse_dom is called
\* for the next child, or the record is returned.
TR_Loop ==
    /\ Running /\ Top.stage = "loop"
    /\ tr' = IF Top.i < Len(Top.children)
             THEN LET child == Top.children[Top.i + 1] IN
                  [SetTop(tr, [Top EXCEPT !.stage = "call"])
                     EXCEPT !.stack = Append(@, Frame(child, Top.css_selector,
                                                      Top.children, Top.i)),
                            !.visited = @ \cup {child}]
             ELSE Return(tr, Top.element_id)
    /\ UNCHANGED <<sessionVars, pc, lp, ms, result, dom, shot, dev, api>>

\* The page removes an element, and with it its subtree, while the pass runs.
DomRemove ==
    /\ tr.pc = "run"
    /\ \E node \in (1..dom.n) \ dom.removed :
        dom' = [dom EXCEPT !.removed = @ \cup Descendants(dom, node)]
    /\ UNCHANGED <<sessionVars, pc, lp, ms, result, tr, shot, dev, api>>

\* get_elements is called on a session whose page is loaded.
InitDom ==
    /\ setup_driver_list = <<None>>
    /\ current_driver_index = 0
    /\ current_driver = 1
    /\ drivers = <<[setup_driver(0) EXCEPT !.current_url = ExampleCom]>>
    /\ pc = "idle"
    /\ lp = LpIdle
    /\ ms = MsNone
    /\ result = NoResult
    /\ dom \in UNION {Documents(n) : n \in 0..MaxNodes}
    /\ \E capture_invisible_elements, full_page_screenshot \in BOOLEAN :
        tr = TrStart(capture_invisible_elements, full_page_screenshot)
    /\ shot = ShotNone
    /\ dev = DevNone
    /\ api = ApiNone

NextDom ==
    \/ GetElements
    \/ TR_Hash
    \/ TR_Displayed
    \/ TR_Rect
    \/ TR_Item
    \/ TR_Children
    \/ TR_Loop
    \/ DomRemove

SpecDom == InitDom /\ [][NextDom]_vars

\* The calls of a pass are made one after the other without waiting for
\* anything but the browser's answers, so a pass that can take a step takes it.
Traverse ==
    GetElements \/ TR_Hash \/ TR_Displayed \/ TR_Rect \/ TR_Item \/ TR_Children \/ TR_Loop

SpecDomFair == SpecDom /\ WF_vars(Traverse)

(***************************************************************************)
(* get_elements on a page that does not change: the caller keeps the list  *)
(* and calls get_elements again with capture_invisible_elements flipped.   *)
(***************************************************************************)
\* Elements of one tag that differ in their attributes, with a second tag.
TreeKinds ==
    {[tag |-> "div", id |-> "header", class |-> ""],
     [tag |-> "span", id |-> "", class |-> "title"],
     [tag |-> "span", id |-> "", class |-> ""],
     [tag |-> "span", id |-> "header", class |-> ""]}

\* Documents with n nodes, all displayed.
VisibleDocuments(n) ==
    {[n |-> n, parent |-> par, kind |-> kind, displayed |-> [k \in 1..n |-> TRUE],
      removed |-> {}] :
        par \in {f \in [1..n -> 0..n] : \A k \in 1..n : IF k = 1 THEN f[k] = 0
                                                        ELSE f[k] \in 1..(k - 1)},
        kind \in [1..n -> TreeKinds]}

\* The first call returned; the second call begins.
GetElementsAgain ==
    /\ Returned
    /\ result = NoResult
    /\ result' = [op |-> "get_elements", raised |-> None, value |-> tr.result,
                  conn |-> current_driver]
    /\ tr' = TrStart(~tr.capture_invisible_elements, tr.full_page_screenshot)
    /\ UNCHANGED <<sessionVars, pc, lp, ms, dom, shot, dev, api>>

InitStatic ==
    /\ setup_driver_list = <<None>>
    /\ current_driver_index = 0
    /\ current_driver = 1
    /\ drivers = <<[setup_driver(0) EXCEPT !.current_url = ExampleCom]>>
    /\ pc = "idle"
    /\ lp = LpIdle
    /\ ms = MsNone
    /\ result = NoResult
    /\ dom \in UNION {Documents(n) : n \in 0..MaxNodes}
                \cup UNION {VisibleDocuments(n) : n \in 0..MaxTreeNodes}
    /\ \E capture_invisible_elements, full_page_screenshot \in BOOLEAN :
        tr = TrStart(capture_invisible_elements, full_page_screenshot)
    /\ shot = ShotNone
    /\ dev = DevNone
    /\ api = ApiNone

NextStatic ==
    \/ GetElements
    \/ TR_Hash
    \/ TR_Displayed
    \/ TR_Rect
    \/ TR_Item
    \/ TR_Children
    \/ TR_Loop
    \/ GetElementsAgain

SpecStatic == InitStatic /\ [][NextStatic]_vars

(***************************************************************************)
(* Actions: declarative instructions built from a plain key/value record   *)
(* and compiled into a page-side script.  An optional integer is a         *)
(* sequence of length at most one; an optional string is None or a string. *)
(***************************************************************************)
Absent == <<>>
FieldStrings == {None, "", "a", "b"}
FieldInts == {Absent, <<100>>}

\* A script: the object it is called on, the method, the integer arguments.
Script(target, call, args) == [target |-> target, call |-> call, args |-> args]
NoScript == Script(<<>>, "", <<>>)
NoAction == [kind |-> None]

\* The key/value records an action is built from.
ActionDicts ==
    {[kind |-> k, how_much |-> h, element_query_selector |-> q] :
        k \in {"scroll_down", "scroll_up"}, h \in FieldInts, q \in {None, "a"}}
    \cup {[kind |-> k] : k \in {"scroll_to_top", "hover"}}
    \cup {[kind |-> "click_at", click_x |-> x, click_y |-> y] :
        x \in FieldInts, y \in FieldInts}
    \cup {[kind |-> "click_element", element_id |-> i, element_class |-> c,
           element_query_selector |-> q] :
        i \in FieldStrings, c \in FieldStrings, q \in FieldStrings}

\* The validator with `or` for `and`: every predicate must be given.
validate_every_attribute_is_not_null(self) ==
    IF \/ self.element_id = None
       \/ self.element_class = None
       \/ self.element_query_selector = None
    THEN "ValueError" ELSE None

\* actions.py:125-133.
validate_at_least_one_attribute_is_not_null(self) ==
    IF /\ self.element_id = None
       /\ self.element_class = None
       /\ self.element_query_selector = None
    THEN "ValueError" ELSE None

\* The outcome of a constructor: the exception raised, or the action.
Constructed(raised, value) == [raised |-> raised, value |-> value]

\* actions.py:40-48.
ScrollDownAction(how_much, element_query_selector) ==
    IF how_much = Absent THEN Constructed("ValidationError", NoAction)
    ELSE Constructed(None, [kind |-> "scroll_down", how_much |-> how_much,
                            element_query_selector |-> element_query_selector])

\* actions.py:56-64.
ScrollUpAction(how_much, element_query_selector) ==
    IF how_much = Absent THEN Constructed("ValidationError", NoAction)
    ELSE Constructed(None, [kind |-> "scroll_up", how_much |-> how_much,
                            element_query_selector |-> element_query_selector])

\* actions.py:72-76.
ScrollToTopAction == Constructed(None, [kind |-> "scroll_to_top"])

\* actions.py:79-85.
ClickAtAction(click_x, click_y) ==
    IF click_x = Absent \/ click_y = Absent THEN Constructed("ValidationError", NoAction)
    ELSE Constructed(None, [kind |-> "click_at", click_x |-> click_x,
                            click_y |-> click_y])

\* actions.py:91-133: the fields default to None; the validator runs after
\* the fields are set and its ValueError is reported as a validation error.
ClickElementAction(element_id, element_class, element_query_selector) ==
    LET self == [kind |-> "click_element", element_id |-> element_id,
                 element_class |-> element_class,
                 element_query_selector |-> element_query_selector]
    IN IF validate_at_least_one_attribute_is_not_null(self) # None
       THEN Constructed("ValidationError", NoAction)
       ELSE Constructed(None, self)

\* actions.py:20-34.
from_dict(data) ==
    CASE data.kind = "scroll_down" ->
            ScrollDownAction(data.how_much, data.element_query_selector)
      [] data.kind = "scroll_up" ->
            ScrollUpAction(data.how_much, data.element_query_selector)
      [] data.kind = "scroll_to_top" -> ScrollToTopAction
      [] data.kind = "click_at" -> ClickAtAction(data.click_x, data.click_y)
      [] data.kind = "click_element" ->
            ClickElementAction(data.element_id, data.element_class,
                               data.element_query_selector)
      [] OTHER -> Constructed("ValueError", NoAction)

\* to_javascript of each action class, actions.py:50-53, 66-69, 75-76, 87-88
\* and 135-142.  A string is falsy when it is None or empty.
to_javascript(self) ==
    CASE self.kind = "scroll_down" ->
            IF self.element_query_selector = None
            THEN Script(<<"window">>, "scrollBy", <<0, self.how_much[1]>>)
            ELSE Script(<<"document.querySelector", self.element_query_selector>>,
                        "scrollBy", <<0, self.how_much[1]>>)
      [] self.kind = "scroll_up" ->
            IF self.element_query_selector = None
            THEN Script(<<"window">>, "scrollBy", <<0, -self.how_much[1]>>)
            ELSE Script(<<"document.querySelector", self.element_query_selector>>,
                        "scrollBy", <<0, -self.how_much[1]>>)
      [] self.kind = "scroll_to_top" -> Script(<<"window">>, "scrollTo", <<0, 0>>)
      [] self.kind = "click_at" ->
            Script(<<"document.elementFromPoint">>, "click",
                   <<self.click_x[1], self.click_y[1]>>)
      [] self.kind = "click_element" ->
            IF self.element_id \notin {None, ""}
            THEN Script(<<"document.getElementById", self.element_id>>, "click", <<>>)
            ELSE IF self.element_class \notin {None, ""}
            THEN Script(<<"document.getElementsByClassName", self.element_class, "[0]">>,
                        "click", <<>>)
            ELSE Script(<<"document.querySelector", self.element_query_selector>>,
                        "click", <<>>)

\* A caller builds an action from a key/value record.
FromDict ==
    /\ shot.pc = "data"
    /\ LET r == from_dict(shot.data) IN
        shot' = [shot EXCEPT !.pc = IF r.raised = None THEN "action" ELSE "invalid",
                             !.raised = r.raised, !.action = r.value]
    /\ UNCHANGED <<sessionVars, pc, lp, ms, result, domVars, dev, api>>

\* The action is compiled.
ToJavascript ==
    /\ shot.pc = "action"
    /\ shot' = [shot EXCEPT !.pc = "script", !.script = to_javascript(shot.action)]
    /\ UNCHANGED <<sessionVars, pc, lp, ms, result, domVars, dev, api>>

InitAction ==
    /\ setup_driver_list = <<None>>
    /\ current_driver_index = 0
    /\ current_driver = NoDriver
    /\ drivers = <<>>
    /\ pc = "idle"
    /\ lp = LpIdle
    /\ ms = MsNone
    /\ result = NoResult
    /\ dom = DomNone
    /\ tr = TrNone
    /\ dev = DevNone
    /\ api = ApiNone
    /\ \E data \in ActionDicts :
        shot = [pc |-> "data", data |-> data, raised |-> None, action |-> NoAction,
                script |-> NoScript]

NextAction == FromDict \/ ToJavascript

SpecAction == InitAction /\ [][NextAction]_vars

(***************************************************************************)
(* The action replay and the screenshot calls of a session whose page is   *)
(* loaded.  shot.js_executed is the sequence of what the browser was asked *)
(* to do: scripts, pauses, the screenshot.                                 *)
(***************************************************************************)
\* The actions of the replayed lists.
ReplayActions ==
    {ScrollDownAction(<<100>>, None).value,
     ScrollToTopAction.value,
     ClickElementAction("a", None, None).value}

\* base.py:322-324: the script of trigger_reflow.
ReflowScript == Script(<<"document.body">>, "offsetHeight", <<>>)

Event(ev, script, raised) == [ev |-> ev, script |-> script, raised |-> raised]

\* safe_execute without the except clause: the error leaves the call.
safe_execute_unguarded(js_error) ==
    [raised |-> IF js_error THEN "JavascriptException" ELSE None, logged |-> FALSE]

\* base.py:157-161: a JavascriptException of the script is logged and
\* swallowed.
safe_execute(js_error) == [raised |-> None, logged |-> js_error]

\* The list of take_full_page_screenshot without the scroll to the top.
full_page_actions_as_given(actions) == actions

\* base.py:172: actions + [ScrollToTopAction()], a new list.
full_page_actions(actions) == actions \o <<ScrollToTopAction.value>>

\* perform_actions returns when its loop is over: to its caller's screenshot,
\* or to the caller of perform_actions.
AfterActions(s) ==
    IF s.i < Len(s.actions) THEN s
    ELSE [s EXCEPT !.pc = IF s.op = "perform_actions" THEN "done" ELSE "shoot"]

\* The call of `op` with `actions` (a list, or None when is_none).
ShotCall(op, is_none) ==
    [shot EXCEPT !.pc = "pa", !.op = op, !.is_none = is_none,
                 !.given = shot.list, !.i = 0, !.stage = "script"]

\* base.py:163-176.
TakeFullPageScreenshot ==
    /\ shot.pc = "caller"
    /\ \E is_none \in BOOLEAN :
        shot' = IF is_none
                THEN [ShotCall("take_full_page_screenshot", TRUE) EXCEPT !.pc = "shoot"]
                ELSE AfterActions([ShotCall("take_full_page_screenshot", FALSE)
                                      EXCEPT !.actions = full_page_actions(shot.list)])
    /\ UNCHANGED <<sessionVars, pc, lp, ms, result, domVars, dev, api>>

\* base.py:178-190.
TakeViewportScreenshot ==
    /\ shot.pc = "caller"
    /\ \E is_none \in BOOLEAN :
        shot' = IF is_none
                THEN [ShotCall("take_viewport_screenshot", TRUE) EXCEPT !.pc = "shoot"]
                ELSE AfterActions([ShotCall("take_viewport_screenshot", FALSE)
                                      EXCEPT !.actions = shot.list])
    /\ UNCHANGED <<sessionVars, pc, lp, ms, result, domVars, dev, api>>

\* base.py:192-197: perform_actions called by a caller; `for action in None`
\* raises TypeError.
PerformActions ==
    /\ shot.pc = "caller"
    /\ \E is_none \in BOOLEAN :
        shot' = IF is_none
                THEN [ShotCall("perform_actions", TRUE)
                        EXCEPT !.pc = "raised", !.raised = "TypeError"]
                ELSE AfterActions([ShotCall("perform_actions", FALSE)
                                      EXCEPT !.actions = shot.list])
    /\ UNCHANGED <<sessionVars, pc, lp, ms, result, domVars, dev, api>>

\* base.py:198-200: the action's script is run by safe_execute.
PA_Script ==
    /\ shot.pc = "pa" /\ shot.stage = "script"
    /\ \E js_error \in BOOLEAN :
        LET script == to_javascript(shot.actions[shot.i + 1])
            r == safe_execute(js_error)
        IN shot' = IF r.raised # None
                   THEN [shot EXCEPT !.pc = "raised", !.raised = r.raised,
                                     !.js_executed = Append(@, Event("action", script, js_error))]
                   ELSE [shot EXCEPT !.stage = "reflow",
                                     !.warnings = @ + (IF r.logged THEN 1 ELSE 0),
                                     !.js_executed = Append(@, Event("action", script, js_error))]
    /\ UNCHANGED <<sessionVars, pc, lp, ms, result, domVars, dev, api>>

\* base.py:202 and 321-324: trigger_reflow.
PA_Reflow ==
    /\ shot.pc = "pa" /\ shot.stage = "reflow"
    /\ \E js_error \in BOOLEAN :
        LET r == safe_execute(js_error)
        IN shot' = IF r.raised # None
                   THEN [shot EXCEPT !.pc = "raised", !.raised = r.raised,
                                     !.js_executed = Append(@, Event("reflow", ReflowScript, js_error))]
                   ELSE [shot EXCEPT !.stage = "sleep",
                                     !.warnings = @ + (IF r.logged THEN 1 ELSE 0),
                                     !.js_executed = Append(@, Event("reflow", ReflowScript, js_error))]
    /\ UNCHANGED <<sessionVars, pc, lp, ms, result, domVars, dev, api>>

\* base.py:204-205: the pause; the loop goes to the next action.
PA_Sleep ==
    /\ shot.pc = "pa" /\ shot.stage = "sleep"
    /\ shot' = AfterActions([shot EXCEPT !.i = @ + 1, !.stage = "script",
                                         !.js_executed = Append(@, Event("sleep", NoScript, FALSE))])
    /\ UNCHANGED <<sessionVars, pc, lp, ms, result, domVars, dev, api>>

\* base.py:176 and 190: perform_full_page_screenshot or
\* perform_viewport_screenshot writes the file.
PerformScreenshot ==
    /\ shot.pc = "shoot"
    /\ shot' = [shot EXCEPT !.pc = "done",
                            !.js_executed = Append(@, Event("screenshot", NoScript, FALSE))]
    /\ UNCHANGED <<sessionVars, pc, lp, ms, result, domVars, dev, api>>

InitShot ==
    /\ setup_driver_list = <<None>>
    /\ current_driver_index = 0
    /\ current_driver = 1
    /\ drivers = <<[setup_driver(0) EXCEPT !.current_url = ExampleCom]>>
    /\ pc = "idle"
    /\ lp = LpIdle
    /\ ms = MsNone
    /\ result = NoResult
    /\ dom = DomNone
    /\ tr = TrNone
    /\ dev = DevNone
    /\ api = ApiNone
    /\ \E list \in SeqsUpTo(ReplayActions, MaxActions) :
        shot = [pc |-> "caller", list |-> list, given |-> list, op |-> None,
                is_none |-> FALSE, actions |-> <<>>, i |-> 0, stage |-> "script",
                js_executed |-> <<>>, warnings |-> 0, raised |-> None]

NextShot ==
    \/ TakeFullPageScreenshot
    \/ TakeViewportScreenshot
    \/ PerformActions
    \/ PA_Script
    \/ PA_Reflow
    \/ PA_Sleep
    \/ PerformScreenshot

SpecShot == InitShot /\ [][NextShot]_vars

(***************************************************************************)
(* Device profiles: DeviceConfig objects, drivers/device.py, and the       *)
(* sessions that hold references to them.  dev.heap is the sequence of the *)
(* DeviceConfig objects of the process; object DefaultObject is the value  *)
(* of the default argument of BaseScreenshooter.__init__, which Python     *)
(* evaluates once, when the function is defined.  A pixel ratio is kept in *)
(* tenths (3.5 is 35); a user agent is abbreviated to the device it names. *)
(***************************************************************************)
DeviceConfig(width, height, pixel_ratio, is_mobile_view, user_agent) ==
    [width |-> width, height |-> height, pixel_ratio |-> pixel_ratio,
     is_mobile_view |-> is_mobile_view, user_agent |-> user_agent]

get_device_config(device) ==
    CASE device = "DESKTOP" -> DeviceConfig(1920, 1080, 10, FALSE, None)
      [] device = "IPHONE_X" -> DeviceConfig(414, 896, 20, TRUE, "iPhone OS 12_0")
      [] device = "IPHONE_15" -> DeviceConfig(428, 926, 30, TRUE, "iPhone OS 15_0")
      [] device = "SAMSUNG_GALAXY_S20" ->
            DeviceConfig(320, 720, 35, TRUE, "Samsung Galaxy S20")

DefaultObject == 1

\* str.split("x"): the pieces between the separators, empty pieces included.
RECURSIVE split(_, _)
split(s, piece) ==
    IF s = <<>> THEN <<piece>>
    ELSE IF Head(s) = "x" THEN <<piece>> \o split(Tail(s), <<>>)
    ELSE split(Tail(s), Append(piece, Head(s)))

Digits == <<"0", "1", "2", "3", "4", "5", "6", "7", "8", "9">>

\* str.isdigit(): non-empty and every character a digit.
isdigit(s) ==
    /\ s # <<>>
    /\ \A i \in 1..Len(s) : \E d \in 1..10 : Digits[d] = s[i]

\* int(s) for a string of digits.
RECURSIVE int(_)
int(s) ==
    IF s = <<>> THEN 0
    ELSE 10 * int(SubSeq(s, 1, Len(s) - 1))
            + (CHOOSE d \in 1..10 : Digits[d] = s[Len(s)]) - 1

\* TakeScreenshotConfig.validate_window_size: TRUE when the value is
\* returned, FALSE when ValueError is raised.  An optional window size is
\* Absent or the one-element sequence of its string.
validate_window_size(value) ==
    IF value = Absent THEN TRUE
    ELSE LET parts == split(value[1], <<>>)
         IN  ~(Len(parts) # 2 \/ ~(\A i \in 1..Len(parts) : isdigit(parts[i])))

\* The window sizes a config may carry: those the validator returns, among
\* the strings of "0", "2" and "x".
WindowSizes ==
    {value \in {Absent} \cup {<<w>> : w \in SeqsUpTo({"0", "2", "x"}, MaxSizeLen)} :
        validate_window_size(value)}

\* BaseScreenshooter.__init__: the session keeps the reference it was given;
\* without a device_config argument that is the default-argument object,
\* with one (as __main__.py:113 builds it) a new object.
NewSession ==
    /\ Len(dev.sessions) < MaxSessions
    /\ \E browser \in {"chrome", "firefox"},
          device \in {"default", "DESKTOP", "IPHONE_X", "IPHONE_15", "SAMSUNG_GALAXY_S20"},
          window_size \in WindowSizes, user_agent \in {None, "custom"} :
          LET fresh == device # "default"
              ref == IF fresh THEN Len(dev.heap) + 1 ELSE DefaultObject
              session == [browser |-> browser, device |-> device,
                          device_config |-> ref, window_size |-> window_size,
                          user_agent |-> user_agent, setup |-> FALSE]
          IN  dev' = [heap |-> IF fresh
                                 THEN Append(dev.heap, get_device_config(device))
                                 ELSE dev.heap,
                      sessions |-> Append(dev.sessions, session)]
    /\ UNCHANGED <<sessionVars, pc, lp, ms, result, domVars, shot, api>>

\* The device_config assignments of setup_driver, applied to the object the
\* session refers to.
setup_driver_device_config(config, browser, window_size, user_agent) ==
    LET parts == split(window_size[1], <<>>)
        c1 == IF window_size # Absent
              THEN [config EXCEPT !.width = int(parts[1]), !.height = int(parts[2])]
              ELSE config
        c2 == IF user_agent # None THEN [c1 EXCEPT !.user_agent = user_agent] ELSE c1
    IN  IF browser = "firefox" /\ c2.is_mobile_view
        THEN [c2 EXCEPT !.pixel_ratio = 10]
        ELSE c2

SetupDriver(s) ==
    /\ ~dev.sessions[s].setup
    /\ LET session == dev.sessions[s]
           ref == session.device_config
       IN  dev' = [heap |-> [dev.heap EXCEPT ![ref] =
                                setup_driver_device_config(dev.heap[ref],
                                    session.browser, session.window_size,
                                    session.user_agent)],
                   sessions |-> [dev.sessions EXCEPT ![s].setup = TRUE]]
    /\ UNCHANGED <<sessionVars, pc, lp, ms, result, domVars, shot, api>>

InitDevice ==
    /\ setup_driver_list = <<None>>
    /\ current_driver_index = 0
    /\ current_driver = NoDriver
    /\ drivers = <<>>
    /\ pc = "idle"
    /\ lp = LpIdle
    /\ ms = MsNone
    /\ result = NoResult
    /\ dom = DomNone
    /\ tr = TrNone
    /\ shot = ShotNone
    /\ dev = [heap |-> <<get_device_config("DESKTOP")>>, sessions |-> <<>>]
    /\ api = ApiNone

NextDevice ==
    \/ NewSession
    \/ \E s \in 1..Len(dev.sessions) : SetupDriver(s)

SpecDevice == InitDevice /\ [][NextDevice]_vars

(***************************************************************************)
(* The schema layer, shooter/schema.py.  A Python dict is a function from  *)
(* its keys; a config is modelled by the fields url, browser, window_size  *)
(* and proxy.  The proxy field is a record: kind "none" for None, "single" *)
(* for one ProxyConfig, "list" for a list of them.                         *)
(***************************************************************************)
ApiInit(a) ==
    /\ setup_driver_list = <<None>>
    /\ current_driver_index = 0
    /\ current_driver = NoDriver
    /\ drivers = <<>>
    /\ pc = "idle"
    /\ lp = LpIdle
    /\ ms = MsNone
    /\ result = NoResult
    /\ dom = DomNone
    /\ tr = TrNone
    /\ shot = ShotNone
    /\ dev = DevNone
    /\ api = a

ApiUnchanged == UNCHANGED <<sessionVars, pc, lp, ms, result, domVars, shot, dev>>

NoProxy == [kind |-> "none", items |-> <<>>]

ProxyConfig(host, port, username, password, protocol) ==
    [host |-> host, port |-> port, username |-> username,
     password |-> password, protocol |-> protocol]

\* urllib.parse.quote: "@" becomes "%40"; letters are kept.
quote(string) ==
    CASE string = "p@ss" -> "p%40ss"
      [] string = "u@er" -> "u%40er"
      [] OTHER -> string

\* get_connection_string with the password always in it.
get_connection_string_unmasked(proxy, masked) ==
    <<proxy.protocol, "://", quote(proxy.username), ":", quote(proxy.password),
      "@", proxy.host, ":", proxy.port>>

\* ProxyConfig.get_connection_string: the connection string, as the sequence
\* of the pieces of the f-string.
get_connection_string(proxy, masked) ==
    LET safe_username == quote(proxy.username)
        safe_password == IF ~masked THEN quote(proxy.password) ELSE "***"
    IN  <<proxy.protocol, "://", safe_username, ":", safe_password,
          "@", proxy.host, ":", proxy.port>>

ConfigFields == {"url", "browser", "window_size", "proxy"}

\* The defaults of the fields of TakeScreenshotConfig.
FieldDefault ==
    [url |-> None, browser |-> "BrowserChoice.CHROME", window_size |-> None,
     proxy |-> NoProxy]

\* The value a field takes from a keyword argument: a browser given by its
\* value becomes the member of BrowserChoice.
field_value(field, value) ==
    IF field = "browser"
    THEN CASE value = "chrome" -> "BrowserChoice.CHROME"
           [] value = "firefox" -> "BrowserChoice.FIREFOX"
           [] OTHER -> value
    ELSE value

\* TakeScreenshotConfig(**kwargs).
TakeScreenshotConfig(kwargs) ==
    [field \in ConfigFields |->
        IF field \in DOMAIN kwargs THEN field_value(field, kwargs[field])
        ELSE FieldDefault[field]]

\* TakeScreenshotConfig.dict().
TakeScreenshotConfig_dict(config) ==
    [field \in ConfigFields |->
        CASE field = "browser" ->
                IF config.browser = "BrowserChoice.CHROME" THEN "chrome" ELSE "firefox"
          [] field = "proxy" ->
                [kind |-> config.proxy.kind,
                 items |-> [i \in 1..Len(config.proxy.items) |->
                               get_connection_string(config.proxy.items[i], TRUE)]]
          [] OTHER -> config[field]]

(***************************************************************************)
(* _schedule_screenshot_task, app.py:78-102, for a config and for a second *)
(* config that differs from it in proxy passwords only.                    *)
(***************************************************************************)
ProxyConfigs ==
    {ProxyConfig("proxy.test", "8080", username, password, "https") :
        username \in {"user", "u@er"}, password \in {"secret", "p@ss"}}

\* Configs without a proxy, with one, and with a list of them.
ProxiedConfigs ==
    {TakeScreenshotConfig([url |-> "https://a.test", browser |-> browser, proxy |-> proxy]) :
        browser \in {"chrome", "firefox"},
        proxy \in {NoProxy}
            \cup {[kind |-> "single", items |-> <<p>>] : p \in ProxyConfigs}
            \cup {[kind |-> "list", items |-> l] :
                      l \in SeqsUpTo(ProxyConfigs, MaxProxyList)}}

WithoutPassword(proxy) == [proxy EXCEPT !.password = "removed"]

\* The two configs differ at most in the passwords of their proxies.
SameButPasswords(c1, c2) ==
    /\ c1.url = c2.url /\ c1.browser = c2.browser /\ c1.window_size = c2.window_size
    /\ c1.proxy.kind = c2.proxy.kind
    /\ Len(c1.proxy.items) = Len(c2.proxy.items)
    /\ \A i \in 1..Len(c1.proxy.items) :
          WithoutPassword(c1.proxy.items[i]) = WithoutPassword(c2.proxy.items[i])

\* urlparse(url).hostname of the urls of the model.
url_hostname(url) ==
    CASE url = "https://a.test" -> <<"a", ".", "t", "e", "s", "t">>
      [] url = "https://b.test" -> <<"b", ".", "t", "e", "s", "t">>
      [] url = "https://example.com" -> ExampleCom

\* app.py:83-97: the directory of a task below app.state.output_path, as the
\* pair of its path components.  sha256 is taken to be injective, so the
\* hash of the serialized dict is the dict; the fields that are not modelled
\* have their defaults, full_page_screenshot among them.
output_path(config) ==
    LET config_hash == TakeScreenshotConfig_dict(config)
        safe_hostname ==
            str_replace(str_replace(str_replace(url_hostname(config.url),
                <<".", ".">>, <<>>), <<"/">>, <<>>), <<"\\">>, <<>>)
        directory_name ==
            <<safe_hostname, TakeScreenshotConfig_dict(config).browser, "fullpage",
              config_hash>>
    IN  <<safe_hostname, directory_name>>

ScheduleScreenshotTask ==
    /\ api.pc = "config"
    /\ api' = [api EXCEPT !.pc = "scheduled",
                          !.config_dict = <<TakeScreenshotConfig_dict(api.config[1]),
                                            TakeScreenshotConfig_dict(api.config[2])>>,
                          !.config_json = <<TakeScreenshotConfig_dict(api.config[1]),
                                            TakeScreenshotConfig_dict(api.config[2])>>,
                          !.output_path = <<output_path(api.config[1]),
                                            output_path(api.config[2])>>]
    /\ ApiUnchanged

InitConfig ==
    \E c1 \in ProxiedConfigs, c2 \in ProxiedConfigs :
        /\ SameButPasswords(c1, c2)
        /\ ApiInit([pc |-> "config", config |-> <<c1, c2>>,
                    config_dict |-> <<>>, config_json |-> <<>>, output_path |-> <<>>])

NextConfig == ScheduleScreenshotTask

SpecConfig == InitConfig /\ [][NextConfig]_vars

(***************************************************************************)
(* TakeScreenshotRequest.convert_urls_to_config, schema.py:174-224.        *)
(* `values` is the dict given to the validator: key "sites" and, when the  *)
(* caller gave one, key "default_config".  An item of sites is a plain     *)
(* string, [str |-> url], or a dict, [dict |-> d].                         *)
(***************************************************************************)
\* The dicts a caller may give: every key is optional, url and window_size
\* may be null.
ConfigDicts ==
    {d \in UNION {[keys -> {None, "https://a.test", "chrome", "firefox", "800x600"}] :
                      keys \in SUBSET {"url", "browser", "window_size"}} :
        /\ "url" \in DOMAIN d => d["url"] \in {None, "https://a.test"}
        /\ "browser" \in DOMAIN d => d["browser"] \in {"chrome", "firefox"}
        /\ "window_size" \in DOMAIN d => d["window_size"] \in {None, "800x600"}}

\* The lists a caller may give as sites.
SiteLists ==
    SeqsUpTo({[str |-> url] : url \in {"https://a.test", "https://b.test"}}
                 \cup {[dict |-> d] : d \in ConfigDicts}, MaxSites)

isinstance_str(item) == "str" \in DOMAIN item

\* dict.pop(key) applied to a dict that has the key or not.
pop(d, key) == [k \in DOMAIN d \ {key} |-> d[k]]

\* d.update(other) with the keys of d winning.
update_keep_existing(d, other) ==
    [k \in DOMAIN d \cup DOMAIN other |-> IF k \in DOMAIN d THEN d[k] ELSE other[k]]

\* d.update(other).
update(d, other) ==
    [k \in DOMAIN d \cup DOMAIN other |-> IF k \in DOMAIN other THEN other[k] ELSE d[k]]

\* schema.py:191-197.
default_config_dict_without_url(values) ==
    pop(IF "default_config" \in DOMAIN values
        THEN values["default_config"]
        ELSE TakeScreenshotConfig_dict(TakeScreenshotConfig([url |-> "https://example.com"])),
        "url")

\* schema.py:210: url_or_config.get("url") is None, for an item that is a dict.
url_is_none(item) ==
    /\ ~isinstance_str(item)
    /\ "url" \notin DOMAIN item.dict \/ item.dict["url"] = None

\* schema.py:200-219: the replacement of an item that is not rejected.
replaced_config(item, default) ==
    IF isinstance_str(item)
    THEN TakeScreenshotConfig(update(default, [url |-> item.str]))
    ELSE TakeScreenshotConfig(update(default, item.dict))

\* The index of the first item that is rejected, 0 when there is none.
FirstRejected(sites) ==
    IF \E i \in 1..Len(sites) : url_is_none(sites[i])
    THEN CHOOSE i \in 1..Len(sites) :
            /\ url_is_none(sites[i])
            /\ \A j \in 1..(i - 1) : ~url_is_none(sites[j])
    ELSE 0

ConvertUrlsToConfig ==
    /\ api.pc = "request"
    /\ LET values == api.values
           default == default_config_dict_without_url(values)
           rejected == FirstRejected(values.sites)
       IN  IF rejected # 0
           THEN api' = [api EXCEPT !.pc = "raised", !.raised = "ValueError",
                                   !.position = rejected - 1]
           ELSE api' = [api EXCEPT !.pc = "converted",
                           !.sites = [i \in 1..Len(values.sites) |->
                                         replaced_config(values.sites[i], default)]]
    /\ ApiUnchanged

InitRequest ==
    \E sites \in SiteLists, given \in BOOLEAN, default_config \in ConfigDicts :
        ApiInit([pc |-> "request",
                 values |-> IF given
                            THEN [sites |-> sites, default_config |-> default_config]
                            ELSE [sites |-> sites],
                 sites |-> <<>>, raised |-> None, position |-> 0])

NextRequest == ConvertUrlsToConfig

SpecRequest == InitRequest /\ [][NextRequest]_vars

(***************************************************************************)
(* TaskProgressResponse.from_async_result_list, schema.py:263-307.  A task *)
(* result answers ready(), successful() and state.                         *)
(***************************************************************************)
AsyncResults ==
    [ready : BOOLEAN, successful : BOOLEAN,
     state : {"PENDING", "STARTED", "SUCCESS", "FAILURE"}]

\* schema.py:285-292 with FAILURE tested before PENDING.
overall_state_failure_first(states) ==
    IF Len(states) > 0 /\ \A i \in 1..Len(states) : states[i] = "SUCCESS" THEN "SUCCESS"
    ELSE IF \E i \in 1..Len(states) : states[i] = "FAILURE" THEN "FAILURE"
    ELSE IF \E i \in 1..Len(states) : states[i] = "PENDING" THEN "PENDING"
    ELSE "UNKNOWN"

\* schema.py:285-292.
overall_state(states) ==
    IF Len(states) > 0 /\ \A i \in 1..Len(states) : states[i] = "SUCCESS" THEN "SUCCESS"
    ELSE IF \E i \in 1..Len(states) : states[i] = "PENDING" THEN "PENDING"
    ELSE IF \E i \in 1..Len(states) : states[i] = "FAILURE" THEN "FAILURE"
    ELSE "UNKNOWN"

NoResponse ==
    [completed |-> 0, failed |-> 0, total |-> 0, state |-> None,
     all_successful |-> FALSE, ready |-> FALSE]

\* schema.py:267-270.
FromAsyncResultList ==
    /\ api.pc = "results"
    /\ api' = [api EXCEPT !.pc = "collect", !.completed = 0, !.failed = 0,
                          !.total = Len(api.async_result_list), !.states = <<>>]
    /\ ApiUnchanged

\* schema.py:273-282: one iteration of the loop.
FA_Collect ==
    /\ api.pc = "collect"
    /\ Len(api.states) < Len(api.async_result_list)
    /\ LET r == api.async_result_list[Len(api.states) + 1] IN
        api' = [api EXCEPT
                   !.completed = IF r.ready /\ r.successful THEN @ + 1 ELSE @,
                   !.failed = IF r.ready /\ ~r.successful THEN @ + 1 ELSE @,
                   !.states = Append(@, r.state)]
    /\ ApiUnchanged

\* schema.py:284-307.
FA_Return ==
    /\ api.pc = "collect"
    /\ Len(api.states) = Len(api.async_result_list)
    /\ api' = [api EXCEPT !.pc = "returned",
                  !.response =
                     [completed |-> api.completed,
                      failed |-> api.failed,
                      total |-> api.total,
                      state |-> overall_state(api.states),
                      all_successful |-> /\ api.completed > 0
                                         /\ api.completed = api.total
                                         /\ api.failed = 0,
                      ready |-> api.completed + api.failed = api.total]]
    /\ ApiUnchanged

InitProgress ==
    \E list \in SeqsUpTo(AsyncResults, MaxResults) :
        ApiInit([pc |-> "results", async_result_list |-> list, completed |-> 0,
                 failed |-> 0, total |-> 0, states |-> <<>>, response |-> NoResponse])

NextProgress == FromAsyncResultList \/ FA_Collect \/ FA_Return

SpecProgress == InitProgress /\ [][NextProgress]_vars

(***************************************************************************)
(* Host verification over all small host names: the gate's check applied   *)
(* to one requested host and one host the browser ended on.                *)
(***************************************************************************)
HostAlphabet == {"w", ".", "e"}

\* A host name: labels that are not empty, separated by single dots.
IsHostName(h) ==
    /\ Len(h) >= 1
    /\ h[1] # "." /\ h[Len(h)] # "."
    /\ \A i \in 1..(Len(h) - 1) : ~(h[i] = "." /\ h[i + 1] = ".")

HostStrings == {h \in SeqsUpTo(HostAlphabet, MaxHostLen) : IsHostName(h)} \cup {NoHost}

InitHost ==
    /\ setup_driver_list = <<None>>
    /\ current_driver_index = 0
    /\ current_driver = 1
    /\ \E url \in HostStrings, current_url \in HostStrings :
        /\ drivers = <<[setup_driver(0) EXCEPT !.current_url = current_url]>>
        /\ lp = [LpIdle EXCEPT !.url = url, !.calls = 1, !.gets = 1,
                               !.steps = <<"sleep_before", "get", "sleep_after">>]
    /\ pc = "lpc_check"
    /\ ms = MsNone
    /\ result = NoResult
    /\ dom = DomNone
    /\ tr = TrNone
    /\ shot = ShotNone
    /\ dev = DevNone
    /\ api = ApiNone

NextHost == LPC_HostCheck

SpecHost == InitHost /\ [][NextHost]_vars

(***************************************************************************)
(* Properties of the driver session and of the readiness gate.             *)
(***************************************************************************)
Retryable == {"RuntimeError", "TimeoutException"}
LoadReturned == result.op = "load_page_with_checks" /\ result.raised = None
LastAttempt == lp.attempts[Len(lp.attempts)]

\* C1: with N >= 1 endpoints at most N connections are ever instantiated; a
\* `driver` access that finds a cached connection returns it and instantiates
\* nothing; an access made once the cursor has reached N (after the N-th
\* rotation) raises NoDriverRemainingError, an earlier one raises nothing.
C1_DriverStepCached ==
    (Driver /\ current_driver # NoDriver /\ current_driver_index < NProxies)
        => /\ drivers' = drivers
           /\ current_driver' = current_driver
           /\ result'.raised = None
           /\ result'.conn = current_driver

C1_AtMostN ==
    /\ NProxies >= 1 => Len(drivers) <= NProxies
    /\ current_driver_index <= NProxies
    /\ result.op = "driver" =>
         IF current_driver_index >= NProxies
         THEN result.raised = "NoDriverRemainingError" /\ result.conn = NoDriver
         ELSE result.raised = None /\ result.conn = current_driver
                /\ current_driver # NoDriver

C1_Rotation == [](C1_AtMostN) /\ [][C1_DriverStepCached]_vars

\* C1 witness: all N >= 2 endpoints were instantiated and rotated away, and the
\* access that followed raised NoDriverRemainingError.
C1_Witness ==
    /\ NProxies >= 2
    /\ Len(drivers) = NProxies
    /\ current_driver_index = NProxies
    /\ result.op = "driver"
    /\ result.raised = "NoDriverRemainingError"

\* C2: a load whose attempts 1..k-1 end in a retryable failure and whose attempt
\* k raises nothing returns True after exactly k calls of load_page_and_check
\* and k-1 rotations, attempt i running against the i-th endpoint counted from
\* the cursor the load started at (the i-th endpoint on a new session); and a
\* retryable failure is always followed by a rotation and another attempt.
C2_LoadedOk == Len(lp.attempts) > 0 /\ LastAttempt.outcome = None

C2_Returned ==
    /\ (LoadReturned /\ result.value = "True") => C2_LoadedOk
    /\ C2_LoadedOk =>
        LET k == Len(lp.attempts) IN
        /\ pc = "lpw_loop" \/ (LoadReturned /\ result.value = "True")
        /\ lp.page_loaded
        /\ lp.calls = k
        /\ lp.rotations = k - 1
        /\ lp.start + k <= NProxies
        /\ \A i \in 1..k : lp.attempts[i].endpoint = lp.start + i
        /\ \A i \in 1..(k - 1) : lp.attempts[i].outcome \in Retryable

C2_RetryStep ==
    (pc = "lpw_except" /\ lp.exc \in Retryable)
        => /\ pc' = "lpw_loop"
           /\ lp'.rotations = lp.rotations + 1
           /\ current_driver_index' = current_driver_index + 1
           /\ ~lp'.page_loaded

C2_RetryUntilLoaded == [](C2_Returned) /\ [][C2_RetryStep]_vars

\* C2 witness: on a new session the third attempt succeeded after a host
\* mismatch and a timeout, and the load returned True.
C2_Witness ==
    /\ LoadReturned /\ result.value = "True"
    /\ lp.start = 0
    /\ Len(lp.attempts) = 3
    /\ lp.attempts[1].outcome = "RuntimeError"
    /\ lp.attempts[2].outcome = "TimeoutException"

\* C3: a load that returns False made exactly one navigation per endpoint that
\* was left when it started (N on a new session), each ending in a retryable
\* failure and a rotation; the exhaustion that ends it is raised by the next
\* call, caught, and never reaches the caller.
C3_Exhausted ==
    /\ result.op = "load_page_with_checks" => result.raised # "NoDriverRemainingError"
    /\ (pc = "lpw_except" /\ lp.exc = "NoDriverRemainingError")
         => current_driver_index = NProxies /\ ~lp.page_loaded
    /\ (LoadReturned /\ result.value = "False") =>
        LET n == NProxies - lp.start IN
        /\ lp.gets = n
        /\ lp.rotations = n
        /\ lp.calls = n + 1
        /\ Len(lp.attempts) = n + 1
        /\ \A i \in 1..n : /\ lp.attempts[i].outcome \in Retryable
                           /\ lp.attempts[i].endpoint = lp.start + i
        /\ lp.attempts[n + 1] = Attempt(0, "NoDriverRemainingError")

C3_BreakStep ==
    (pc = "lpw_except" /\ lp.exc = "NoDriverRemainingError")
        => /\ pc' = "idle"
           /\ result' = [op |-> "load_page_with_checks", raised |-> None,
                         value |-> "False", conn |-> NoDriver]

C3_GiveUpCleanly == [](C3_Exhausted) /\ [][C3_BreakStep]_vars

\* C3 witness: on a new session with three endpoints every attempt failed and
\* the load returned False.
C3_Witness ==
    /\ LoadReturned /\ result.value = "False"
    /\ lp.start = 0
    /\ NProxies = 3
    /\ lp.gets = 3

\* C4: at most one connection is instantiated and not yet quit; every
\* connection but the newest has been quit, so a connection is instantiated
\* only after rotate_driver has quit the one before it.
LiveDrivers == {k \in 1..Len(drivers) : ~drivers[k].quit}

C4_AtMostOneLive ==
    /\ Cardinality(LiveDrivers) <= 1
    /\ \A k \in 1..(Len(drivers) - 1) : drivers[k].quit
    /\ (current_driver = NoDriver) => LiveDrivers = {}

\* C4 witness: a second connection is live after the first was rotated away.
C4_Witness ==
    /\ Len(drivers) >= 2
    /\ LiveDrivers = {Len(drivers)}
    /\ drivers[1].quit

\* C5: the cursor changes only by a rotation, which quits the cached connection,
\* advances the cursor by exactly one and clears the cache; the k-th
\* connection instantiated is built from the k-th configured endpoint, so no
\* endpoint is instantiated twice.
C5_Ordered ==
    /\ \A k \in 1..Len(drivers) :
        /\ drivers[k].endpoint = k
        /\ drivers[k].proxy = setup_driver_list[k]
    /\ \A j, k \in 1..Len(drivers) : j # k => drivers[j].endpoint # drivers[k].endpoint
    /\ Len(drivers) \in {current_driver_index, current_driver_index + 1}

C5_CursorStep ==
    (current_driver_index' # current_driver_index)
        => /\ current_driver_index' = current_driver_index + 1
           /\ current_driver # NoDriver
           /\ current_driver' = NoDriver
           /\ drivers'[current_driver].quit
           /\ Len(drivers') = Len(drivers)
           /\ RotateDriver \/ LPW_Except

C5_Irreversible == [](C5_Ordered) /\ [][C5_CursorStep]_vars

\* C5 witness: three connections were instantiated, the third after two
\* rotations.
C5_Witness ==
    /\ Len(drivers) = 3
    /\ current_driver_index = 2
    /\ current_driver = 3

\* The normalization the specification describes: only a leading "www." goes.
strip_leading_www(hostname) ==
    IF Len(hostname) >= Len(WWW) /\ SubSeq(hostname, 1, Len(WWW)) = WWW
    THEN SubSeq(hostname, Len(WWW) + 1, Len(hostname))
    ELSE hostname

HostCheckDone == pc # "lpc_check" /\ Len(lp.attempts) = 1

\* C6: for a requested host and a host the browser ended on, the attempt passes
\* the host verification iff the two are equal once a leading "www." is removed
\* from each, and raises RuntimeError otherwise.
C6_LeadingWwwOnly ==
    (HostCheckDone /\ lp.url # NoHost /\ drivers[1].current_url # NoHost) =>
        IF strip_leading_www(lp.url) = strip_leading_www(drivers[1].current_url)
        THEN lp.attempts[1].outcome = None
        ELSE lp.attempts[1].outcome = "RuntimeError"

\* C7 as stated: with two endpoints, a load for example.com whose first
\* navigation ends on evil.com has made exactly one rotation when it returns,
\* loaded or exhausted.
C7_Premise ==
    /\ NProxies = 2
    /\ lp.start = 0
    /\ lp.url = ExampleCom
    /\ LoadReturned
    /\ Len(lp.attempts) >= 1
    /\ lp.attempts[1] = Attempt(1, "RuntimeError")

C7_ExactlyOneRotation == C7_Premise => lp.rotations = 1

\* C7 as amended: such a load has made exactly one rotation when it returns
\* True (the second endpoint loaded the page), and exactly two, one per failed
\* endpoint, when it returns False.
C7_OneRotationPerFailure ==
    C7_Premise =>
        /\ result.value = "True" => lp.rotations = 1 /\ Len(lp.attempts) = 2
        /\ result.value = "False" => lp.rotations = 2 /\ Len(lp.attempts) = 3
        /\ result.value \in {"True", "False"}

\* C7 witness: the mismatch on the first endpoint was followed by one rotation
\* and a successful load on the second.
C7_Witness ==
    /\ C7_Premise
    /\ result.value = "True"
    /\ lp.rotations = 1

\* C8: when the load returns False, make_screenshot_from_url raises a
\* RuntimeError naming the url and has touched neither the page nor the output
\* directory; whatever it does after the load, it does after an attempt that
\* passed the host verification.
MsAfterLoad == ms.pc \notin {"none", "load"}

C8_NoCaptureWithoutLoad ==
    /\ (MsAfterLoad /\ result.raised = None /\ result.value # "True") =>
        /\ ms.pc = "raised"
        /\ ms.error = "RuntimeError"
        /\ ms.error_url = ms.url
        /\ ms.log = <<>>
    /\ (ms.pc \notin {"none", "load", "raised"} \/ ms.log # <<>>) =>
        /\ LoadReturned /\ result.value = "True"
        /\ lp.page_loaded
        /\ LastAttempt.outcome = None
        /\ ms.error = None \/ ms.pc = "raised"
    /\ ms.pc = "load" => ms.log = <<>>

\* C8 witness: both endpoints failed and the run ended with the RuntimeError.
C8_Witness ==
    /\ ms.pc = "raised"
    /\ ms.error = "RuntimeError"
    /\ ms.error_url = ms.url
    /\ NProxies = 2
    /\ lp.gets = 2

(***************************************************************************)
(* Properties of the DOM traversal.                                        *)
(***************************************************************************)
Ids(list) == {list[k].id : k \in 1..Len(list)}
CountId(list, id) == Cardinality({k \in 1..Len(list) : list[k].id = id})

\* Two elements the pass visited have the same markup.
SameMarkupVisited(a, b) ==
    /\ a \in tr.visited /\ b \in tr.visited /\ a # b
    /\ get_element_hash(dom, a) = get_element_hash(dom, b)

\* C9: every record of the map, and of the list get_elements returns, has
\* parent_id None or the id of a record of the same collection; a record is
\* created with parent_id None, and when its parent_id is set the record with
\* that id is already in the map.
C9_ParentPresent ==
    /\ \A k \in 1..Len(tr.map) :
        tr.map[k].parent_id = 0 \/ tr.map[k].parent_id \in Ids(tr.map)
    /\ Returned =>
        \A k \in 1..Len(tr.result) :
            tr.result[k].parent_id = 0 \/ tr.result[k].parent_id \in Ids(tr.result)

C9_LinkStep ==
    \A k \in 1..Len(tr'.map) :
        IF k <= Len(tr.map)
        THEN tr'.map[k].parent_id # tr.map[k].parent_id
                => tr'.map[k].parent_id \in Ids(tr.map)
        ELSE tr'.map[k].parent_id = 0

C9_ReferentialIntegrity == [](C9_ParentPresent) /\ [][C9_LinkStep]_vars

\* C9 witness: a pass over a document with two same-markup elements, an
\* invisible element and a removed one returned linked records.
C9_Witness ==
    /\ Returned
    /\ \E k \in 1..Len(tr.result) : tr.result[k].parent_id # 0
    /\ \E k \in 1..Len(tr.result) : ~tr.result[k].is_visible
    /\ \E a, b \in 1..dom.n : SameMarkupVisited(a, b)
    /\ dom.removed # {}

\* C10 as stated: when two visited elements have the same markup, the returned
\* list holds exactly one record with that identity.
C10_ExactlyOne ==
    (Returned /\ dom.removed = {}) =>
        \A a, b \in 1..dom.n :
            SameMarkupVisited(a, b) =>
                CountId(tr.result, get_element_hash(dom, a)) = 1

\* C10 as amended: the list holds at most one record per identity (the ids are
\* pairwise distinct), a visit of a stored identity stores nothing, and, with
\* nothing removed, the identity of visited elements has exactly one record if
\* one of them is displayed or invisible elements are captured, and none
\* otherwise.
C10_Distinct ==
    /\ \A j, k \in 1..Len(tr.map) : j # k => tr.map[j].id # tr.map[k].id
    /\ Returned =>
        /\ \A j, k \in 1..Len(tr.result) : j # k => tr.result[j].id # tr.result[k].id
        /\ dom.removed = {} =>
            \A a \in tr.visited :
                CountId(tr.result, get_element_hash(dom, a)) =
                    IF \E b \in tr.visited :
                          /\ get_element_hash(dom, b) = get_element_hash(dom, a)
                          /\ dom.displayed[b] \/ tr.capture_invisible_elements
                    THEN 1 ELSE 0

C10_RevisitStep ==
    (Running /\ Top.stage = "hash" /\ InMap(tr.map, get_element_hash(dom, Top.node)))
        => /\ Len(tr'.map) = Len(tr.map)
           /\ \A k \in 1..Len(tr.map) : tr'.map[k].id = tr.map[k].id

C10_AtMostOne == [](C10_Distinct) /\ [][C10_RevisitStep]_vars

\* C10 witness: two visited elements have the same markup and the list holds
\* the one record of their identity, next to another record.
C10_Witness ==
    /\ Returned
    /\ dom.removed = {}
    /\ Len(tr.result) >= 2
    /\ \E a, b \in 1..dom.n :
        /\ SameMarkupVisited(a, b)
        /\ CountId(tr.result, get_element_hash(dom, a)) = 1

(***************************************************************************)
(* Properties of selector synthesis.                                       *)
(***************************************************************************)
\* The siblings of `node` (its parent's children, itself included) with its tag.
SameTagSiblings(d, node) ==
    {j \in ChildNodes(d, d.parent[node]) : d.kind[j].tag = d.kind[node].tag}

\* The 1-based position of `node` among its same-tag siblings.
SameTagRank(d, node) == Cardinality({j \in SameTagSiblings(d, node) : j <= node})

\* The compound of a selector that belongs to the element itself.
OwnSegment(css_selector) == css_selector[Len(css_selector)]

\* C11: the selector of the k-th child of a tag carries :nth-of-type(k) for
\* every k >= 2, and the selector of a child that is the only one of its tag
\* among its siblings carries no nth-of-type qualifier.
C11_NthOfType ==
    dom.removed = {} =>
        \A i \in 1..Len(tr.map) :
            LET r == tr.map[i] IN
            r.node # 1 =>
                /\ SameTagRank(dom, r.node) >= 2
                    => OwnSegment(r.css_selector).nth = SameTagRank(dom, r.node)
                /\ Cardinality(SameTagSiblings(dom, r.node)) = 1
                    => OwnSegment(r.css_selector).nth = 0

Rec(r) ==
    [id |-> r.id, parent_id |-> r.parent_id, tag_name |-> r.tag_name,
     is_visible |-> r.is_visible, css_selector |-> r.css_selector]

\* The records of a list with is_visible True.
VisibleRecords(list) == {Rec(list[k]) : k \in {j \in 1..Len(list) : list[j].is_visible}}

\* Both calls on the unchanged page have returned.
BothReturned == result.op = "get_elements" /\ Returned

\* C13 as stated: two passes over the same unchanged tree that differ only in
\* capture_invisible_elements return the same records with is_visible True.
C13_SameVisibleSubset ==
    BothReturned => VisibleRecords(result.value) = VisibleRecords(tr.result)

\* Every element below an invisible element is invisible, and no invisible
\* element has the markup of a visible one.
InvisibleClosed(d) ==
    \A a \in 1..d.n :
        ~d.displayed[a] =>
            /\ \A b \in Descendants(d, a) : ~d.displayed[b]
            /\ \A b \in 1..d.n :
                d.displayed[b] => get_element_hash(d, b) # get_element_hash(d, a)

\* C13 as amended: the two passes return the same visible records when every
\* element below an invisible element is invisible and no invisible element
\* has the markup of a visible one.
C13_SameVisibleSubsetClosed ==
    (BothReturned /\ InvisibleClosed(dom))
        => VisibleRecords(result.value) = VisibleRecords(tr.result)

\* C13 witness: both passes returned on such a tree with an invisible element;
\* the capturing pass returned its record and both returned a visible record.
C13_Witness ==
    /\ BothReturned
    /\ InvisibleClosed(dom)
    /\ Len(result.value) # Len(tr.result)
    /\ VisibleRecords(tr.result) # {}
    /\ \E k \in 1..Len(result.value) \cup 1..Len(tr.result) :
        \/ k <= Len(result.value) /\ ~result.value[k].is_visible
        \/ k <= Len(tr.result) /\ ~tr.result[k].is_visible

(***************************************************************************)
(* Properties of stale elements.                                           *)
(***************************************************************************)
\* No other node of the document has the markup of `node`.
UniqueMarkup(d, node) ==
    \A b \in (1..d.n) \ {node} : get_element_hash(d, b) # get_element_hash(d, node)

\* The returned list holds a record built from `node`.
Emitted(node) == \E k \in 1..Len(tr.result) : tr.result[k].node = node

\* C14: when the call for a child raised StaleElementReferenceException, every sibling after it that the parent's loop
\* reached, that stays in the document and passes the visibility filter, has
\* a returned record whose parent_id is the parent's id; the pass never ends
\* with StaleElementReferenceException.
C14_SiblingsSurvive ==
    /\ tr.pc = "raised" => tr.error # "StaleElementReferenceException"
    /\ Returned =>
        \A c, s \in 1..dom.n :
            (/\ c < s /\ dom.parent[c] = dom.parent[s]
             /\ c \in tr.stale /\ s \notin dom.removed
             /\ s \in tr.visited
             /\ Emitted(dom.parent[s])
             /\ dom.displayed[s] \/ tr.capture_invisible_elements
             /\ UniqueMarkup(dom, s))
            => \E k \in 1..Len(tr.result) :
                /\ tr.result[k].node = s
                /\ tr.result[k].parent_id = get_element_hash(dom, dom.parent[s])

C16_StaleSubtreeOmitted ==
    Returned =>
        \A s \in tr.stale \ {1} :
            \A b \in Descendants(dom, s) : ~Emitted(b)

(***************************************************************************)
(* Properties of the records of a tree of visible, distinct elements.      *)
(***************************************************************************)
\* Every node is displayed, in the document, and has markup of its own.
VisibleDistinct(d) ==
    /\ d.removed = {}
    /\ \A a \in 1..d.n : d.displayed[a] /\ UniqueMarkup(d, a)

\* The record of the returned list that was built from `node`.
RecordOf(node) == tr.result[CHOOSE k \in 1..Len(tr.result) : tr.result[k].node = node]

\* One record per node; the root's record has no parent and its own segment as
\* selector; another record has its DOM parent's id and the parent's selector
\* followed by its own segment tag[#id][.classes].
TreeRecords ==
    /\ Len(tr.result) = dom.n
    /\ \A a \in 1..dom.n :
        /\ Cardinality({k \in 1..Len(tr.result) : tr.result[k].node = a}) = 1
        /\ Cardinality({k \in 1..Len(tr.result) :
                            tr.result[k].id = get_element_hash(dom, a)}) = 1
        /\ RecordOf(a).id = get_element_hash(dom, a)
        /\ IF a = 1
           THEN /\ RecordOf(a).parent_id = 0
                /\ RecordOf(a).css_selector = <<Segment(dom.kind[a], 0)>>
           ELSE /\ RecordOf(a).parent_id = get_element_hash(dom, dom.parent[a])
                /\ RecordOf(a).css_selector =
                        RecordOf(dom.parent[a]).css_selector
                            \o <<Segment(dom.kind[a], 0)>>

\* C17 as stated: a tree of visible elements with pairwise distinct identities
\* and no stale element yields one record per node, linked to the DOM parent,
\* with the parent's selector followed by the element's plain segment.
C17_PlainSegments == (Returned /\ VisibleDistinct(dom)) => TreeRecords

\* No two children of one element have the same tag.
DistinctSiblingTags(d) == \A a \in 2..d.n : Cardinality(SameTagSiblings(d, a)) = 1

\* C17 as amended: the same, for trees in which the children of every element
\* have pairwise different tags.
C17_PlainSegmentsDistinctTags ==
    (Returned /\ VisibleDistinct(dom) /\ DistinctSiblingTags(dom)) => TreeRecords

\* C17 witness: the pass returned the records of such a tree with two children
\* of different tags and a grandchild.
C17_Witness ==
    /\ Returned
    /\ VisibleDistinct(dom)
    /\ DistinctSiblingTags(dom)
    /\ dom.n = 4
    /\ Cardinality(ChildNodes(dom, 1)) = 2
    /\ Len(tr.result) = 4

(***************************************************************************)
(* Properties of the action replay and the screenshot calls.               *)
(***************************************************************************)
\* What was executed, without the outcome of each script.
Executed(log) == [k \in 1..Len(log) |-> [ev |-> log[k].ev, script |-> log[k].script]]

\* The replay of a list: each action's script, a reflow and a pause, in order.
RECURSIVE ExpectedReplay(_)
ExpectedReplay(actions) ==
    IF actions = <<>> THEN <<>>
    ELSE <<[ev |-> "action", script |-> to_javascript(Head(actions))],
           [ev |-> "reflow", script |-> ReflowScript],
           [ev |-> "sleep", script |-> NoScript]>> \o ExpectedReplay(Tail(actions))

IsPrefix(a, b) == Len(a) <= Len(b) /\ a = SubSeq(b, 1, Len(a))

\* The scripts of the actions executed, in order.
ActionScripts(log) ==
    LET sel == SelectSeq(log, LAMBDA x : x.ev = "action")
    IN [k \in 1..Len(sel) |-> sel[k].script]

Screenshots(log) == Len(SelectSeq(log, LAMBDA x : x.ev = "screenshot"))
Replayed(log) == SelectSeq(log, LAMBDA x : x.ev # "screenshot")
Raisings(log) == Len(SelectSeq(log, LAMBDA x : x.raised))

\* perform_actions was given a list and has returned.
ReplayReturned == ~shot.is_none /\ shot.pc \in {"shoot", "done"}

\* C18: perform_actions runs the script of every action of the list once, in
\* list order, each followed by a reflow and the pause; a JavaScript error of
\* a script is logged and swallowed and the replay goes on to the end.
C18_EveryActionOnce ==
    /\ shot.pc = "raised" => (shot.is_none /\ shot.raised = "TypeError")
    /\ shot.pc \in {"pa", "shoot", "done"} =>
        /\ IsPrefix(Executed(Replayed(shot.js_executed)), ExpectedReplay(shot.actions))
        /\ shot.warnings = Raisings(shot.js_executed)
    /\ ReplayReturned =>
        Executed(Replayed(shot.js_executed)) = ExpectedReplay(shot.actions)

\* C18 witness: perform_actions returned from a list of two actions after the
\* script of the first one raised a JavaScript error.
C18_Witness ==
    /\ ReplayReturned
    /\ shot.op = "perform_actions"
    /\ Len(shot.actions) = 2
    /\ shot.js_executed[1].raised
    /\ Len(shot.js_executed) = 6

\* C19: the caller's list is never changed; take_full_page_screenshot with a
\* list runs the scripts of the list and then one scroll to the top,
\* take_viewport_screenshot runs the scripts of the list, neither runs any
\* script for None; the screenshot is taken once, after everything else.
C19_ScrollToTopThenShot ==
    /\ shot.pc # "caller" => shot.list = shot.given
    /\ shot.pc \in {"pa", "shoot"} => Screenshots(shot.js_executed) = 0
    /\ (shot.pc = "done" /\ shot.op # "perform_actions") =>
        /\ Screenshots(shot.js_executed) = 1
        /\ shot.js_executed[Len(shot.js_executed)].ev = "screenshot"
        /\ shot.is_none => Len(shot.js_executed) = 1
        /\ ~shot.is_none =>
            ActionScripts(shot.js_executed) =
                [k \in 1..Len(shot.given) |-> to_javascript(shot.given[k])]
                  \o (IF shot.op = "take_full_page_screenshot"
                      THEN <<to_javascript(ScrollToTopAction.value)>>
                      ELSE <<>>)

\* C19 witness: take_full_page_screenshot with a list of two actions took the
\* screenshot after three action scripts.
C19_Witness ==
    /\ shot.pc = "done"
    /\ shot.op = "take_full_page_screenshot"
    /\ ~shot.is_none
    /\ Len(shot.given) = 2
    /\ Len(ActionScripts(shot.js_executed)) = 3
    /\ Screenshots(shot.js_executed) = 1

(***************************************************************************)
(* Properties of actions.                                                  *)
(***************************************************************************)
\* The constructor of the action in shot.data has run.
ConstructorRan == shot.pc \in {"action", "invalid", "script"}

\* C20: ClickElementAction with element_id, element_class and
\* element_query_selector all None fails with a validation error and yields
\* no action; with one of them not None it yields the action.
C20_AtLeastOnePredicate ==
    (ConstructorRan /\ shot.data.kind = "click_element") =>
        IF /\ shot.data.element_id = None
           /\ shot.data.element_class = None
           /\ shot.data.element_query_selector = None
        THEN /\ shot.pc = "invalid"
             /\ shot.raised = "ValidationError"
             /\ shot.action = NoAction
        ELSE /\ shot.pc # "invalid"
             /\ shot.raised = None
             /\ shot.action.kind = "click_element"
             /\ shot.action.element_id = shot.data.element_id
             /\ shot.action.element_class = shot.data.element_class
             /\ shot.action.element_query_selector = shot.data.element_query_selector

\* C20 witness: the constructor was given no predicate and failed.
C20_Witness ==
    /\ shot.pc = "invalid"
    /\ shot.data.kind = "click_element"
    /\ shot.raised = "ValidationError"

\* C21: the script of a ClickElementAction that passed validation targets
\* element_id if it is specified (not None), otherwise element_class if it is
\* specified, otherwise element_query_selector, which is then specified.
C21_Precedence ==
    (shot.pc = "script" /\ shot.action.kind = "click_element") =>
        LET a == shot.action IN
        IF a.element_id # None
        THEN shot.script = Script(<<"document.getElementById", a.element_id>>, "click", <<>>)
        ELSE IF a.element_class # None
        THEN shot.script = Script(<<"document.getElementsByClassName", a.element_class,
                                    "[0]">>, "click", <<>>)
        ELSE /\ a.element_query_selector # None
             /\ shot.script = Script(<<"document.querySelector", a.element_query_selector>>,
                                     "click", <<>>)

(***************************************************************************)
(* Properties of the session's endpoints and destruction.                  *)
(***************************************************************************)
\* C22: the endpoint list is fixed at construction: one null endpoint for no
\* proxy, one for a connection string, the list itself for a list; every
\* connection goes through the proxy of its endpoint; with one endpoint the
\* access after one rotation raises NoDriverRemainingError.
C22_EndpointsOfProxy ==
    /\ \A proxy \in ProxyArgs :
        InitSetupDriverList(proxy) =
            CASE proxy.kind = "none" -> <<None>>
              [] proxy.kind = "str" -> <<proxy.val[1]>>
              [] proxy.kind = "list" -> proxy.val
    /\ \A c \in 1..Len(drivers) :
        /\ drivers[c].endpoint \in 1..NProxies
        /\ drivers[c].proxy = setup_driver_list[drivers[c].endpoint]
    /\ (result.op = "driver" /\ result.raised = None) =>
        /\ current_driver_index < NProxies
        /\ drivers[result.conn].endpoint = current_driver_index + 1
    /\ (result.op = "driver" /\ NProxies = 1 /\ current_driver_index = 1) =>
        result.raised = "NoDriverRemainingError"

C22_EndpointsFixed ==
    [](C22_EndpointsOfProxy) /\ [][setup_driver_list' = setup_driver_list]_vars

\* C22 witness: a session with the single proxy string "proxy0" made a
\* connection through it, was rotated once, and the next access raised.
C22_Witness ==
    /\ setup_driver_list = <<"proxy0">>
    /\ Len(drivers) = 1 /\ drivers[1].proxy = "proxy0"
    /\ current_driver_index = 1
    /\ result.op = "driver"
    /\ result.raised = "NoDriverRemainingError"

\* C23: __del__ returned without raising, whatever the session's state was,
\* and no connection of the session is live after it.
C23_DelQuiet ==
    (result.op = "__del__" \/ pc = "destroyed") =>
        /\ result.op = "__del__" => result.raised = None
        /\ \A c \in 1..Len(drivers) : drivers[c].quit

\* C23 witness: an exhausted session, whose connections were made and rotated
\* away, was destroyed.
C23_Witness ==
    /\ pc = "destroyed"
    /\ result.op = "__del__"
    /\ NProxies >= 2
    /\ current_driver_index >= NProxies
    /\ Len(drivers) = NProxies

(***************************************************************************)
(* Properties of script errors during the traversal.                       *)
(***************************************************************************)
\* C24: in viewport mode a JavaScript error of the rectangle query of an
\* element does not end get_elements with an exception: the pass goes on and
\* returns.
C24_RectErrorSwallowed == ~tr.full_page_screenshot => tr.pc # "raised"

(***************************************************************************)
(* C25.  Two sessions never share mutable state: a step that sets up one   *)
(* session's connection (applying its window-size or user-agent override,  *)
(* or Firefox's mobile pixel-ratio reset) leaves the device profile        *)
(* observed by every other session as it was, sessions constructed with    *)
(* the default device profile argument included.                           *)
(***************************************************************************)
Profile(d, s) == d.heap[d.sessions[s].device_config]

C25_ProfilesIsolated ==
    [][\A s \in 1..Len(dev.sessions) :
          dev'.sessions[s].setup = dev.sessions[s].setup
              => Profile(dev', s) = Profile(dev, s)]_vars

(***************************************************************************)
(* C29.  In every state of a session its device profile has width > 0,     *)
(* height > 0 and pixel_ratio > 0, also after connection setup has applied *)
(* a window_size override that validate_window_size accepted.              *)
(***************************************************************************)
C29_ProfilePositive ==
    \A s \in 1..Len(dev.sessions) :
        /\ Profile(dev, s).width > 0
        /\ Profile(dev, s).height > 0
        /\ Profile(dev, s).pixel_ratio > 0

(***************************************************************************)
(* C30.  Within each attempt of load_page_and_check the steps occur in the *)
(* order wait-before-load sleep, navigation, wait-after-load sleep,        *)
(* selector wait (performed iff a selector is given), host verification;   *)
(* a selector timeout ends the attempt before host verification runs, and  *)
(* an attempt counts as successful only after host verification passed.    *)
(***************************************************************************)
AttemptSteps(selector) ==
    <<"sleep_before", "get", "sleep_after">>
        \o (IF selector THEN <<"wait_for_selector">> ELSE <<>>)
        \o <<"host_check">>

LastStep == lp.steps[Len(lp.steps)]

SelectorTimedOut ==
    /\ pc = "lpw_except"
    /\ lp.exc = "TimeoutException"
    /\ lp.steps # <<>>
    /\ LastStep = "wait_for_selector"

C30_StepsInOrder ==
    /\ IsPrefix(lp.steps, AttemptSteps(lp.selector))
    /\ SelectorTimedOut =>
          \A i \in 1..Len(lp.steps) : lp.steps[i] # "host_check"
    /\ lp.page_loaded =>
          /\ lp.steps = AttemptSteps(lp.selector)
          /\ LastAttempt.outcome = None

C30_Witness ==
    /\ lp.page_loaded
    /\ lp.selector
    /\ Len(lp.attempts) >= 2
    /\ \E i \in 1..Len(lp.attempts) : lp.attempts[i].outcome = "TimeoutException"

(***************************************************************************)
(* C28.  TakeScreenshotConfig.dict() is independent of proxy passwords:    *)
(* two configs that differ only in the password of one or more proxies     *)
(* give the same dict() output, every proxy being rendered with its        *)
(* password masked, and so the same saved config.json content.             *)
(***************************************************************************)
Scheduled == api.pc = "scheduled"

PasswordsDiffer ==
    \E i \in 1..Len(api.config[1].proxy.items) :
        api.config[1].proxy.items[i].password # api.config[2].proxy.items[i].password

C28_PasswordIndependent ==
    Scheduled =>
        /\ api.config_dict[1] = api.config_dict[2]
        /\ api.config_json[1] = api.config_json[2]
        /\ \A i \in 1..Len(api.config_dict[1].proxy.items) :
              api.config_dict[1].proxy.items[i][5] = "***"

C28_Witness ==
    /\ Scheduled
    /\ PasswordsDiffer
    /\ api.config[1].proxy.kind = "list"
    /\ Len(api.config[1].proxy.items) = 2

(***************************************************************************)
(* C26.  For every field of every item of sites the resulting config has   *)
(* the item's own value if the item specifies the field, otherwise the     *)
(* value of default_config if default_config specifies it, otherwise the   *)
(* field's built-in default; a plain URL string is an item that specifies  *)
(* only url; the url of default_config is never applied; an item without   *)
(* a url is rejected with an error.                                        *)
(***************************************************************************)
\* What an item specifies.
Specified(item) == IF isinstance_str(item) THEN [url |-> item.str] ELSE item.dict

HasUrl(item) ==
    /\ "url" \in DOMAIN Specified(item)
    /\ Specified(item)["url"] # None

\* The value of the field by the order of precedence.
ByPrecedence(item, values, field) ==
    IF field \in DOMAIN Specified(item)
    THEN field_value(field, Specified(item)[field])
    ELSE IF /\ "default_config" \in DOMAIN values
            /\ field # "url"
            /\ field \in DOMAIN values["default_config"]
         THEN field_value(field, values["default_config"][field])
         ELSE FieldDefault[field]

C26_Precedence ==
    api.pc # "request" =>
        /\ api.pc = "raised" <=>
              \E i \in 1..Len(api.values.sites) : ~HasUrl(api.values.sites[i])
        /\ api.pc = "converted" =>
              /\ Len(api.sites) = Len(api.values.sites)
              /\ \A i \in 1..Len(api.sites) : \A field \in ConfigFields :
                    api.sites[i][field]
                        = ByPrecedence(api.values.sites[i], api.values, field)

C26_Witness ==
    /\ api.pc = "converted"
    /\ "default_config" \in DOMAIN api.values
    /\ DOMAIN api.values["default_config"] = {"url", "browser", "window_size"}
    /\ api.values["default_config"]["browser"] = "firefox"
    /\ api.values["default_config"]["window_size"] = "800x600"
    /\ Len(api.values.sites) = 2
    /\ isinstance_str(api.values.sites[1])
    /\ api.values.sites[1].str # api.values["default_config"]["url"]
    /\ ~isinstance_str(api.values.sites[2])
    /\ DOMAIN api.values.sites[2].dict = {"url", "browser"}
    /\ api.values.sites[2].dict["browser"] = "chrome"

(***************************************************************************)
(* C27.  from_async_result_list, for any list of task results: completed   *)
(* counts the results that are ready and successful, failed those that are *)
(* ready and not successful, total is the length of the list; ready holds  *)
(* iff completed + failed = total; all_successful holds iff total > 0 and  *)
(* completed = total; state is SUCCESS iff the list is not empty and every *)
(* task state is SUCCESS, otherwise PENDING if any state is PENDING,       *)
(* otherwise FAILURE if any state is FAILURE, otherwise UNKNOWN.           *)
(***************************************************************************)
Results == api.async_result_list
ProgressReturned == api.pc = "returned"

ReadySuccessful == {i \in 1..Len(Results) : Results[i].ready /\ Results[i].successful}
ReadyFailed == {i \in 1..Len(Results) : Results[i].ready /\ ~Results[i].successful}
AnyState(state) == \E i \in 1..Len(Results) : Results[i].state = state
EveryStateSuccess ==
    Len(Results) > 0 /\ \A i \in 1..Len(Results) : Results[i].state = "SUCCESS"

C27_Progress ==
    ProgressReturned =>
        LET r == api.response IN
        /\ r.completed = Cardinality(ReadySuccessful)
        /\ r.failed = Cardinality(ReadyFailed)
        /\ r.total = Len(Results)
        /\ r.completed + r.failed <= r.total
        /\ r.ready <=> (r.completed + r.failed = r.total)
        /\ r.all_successful <=> (r.total > 0 /\ r.completed = r.total)
        /\ r.state = "SUCCESS" <=> EveryStateSuccess
        /\ ~EveryStateSuccess =>
              r.state = IF AnyState("PENDING") THEN "PENDING"
                        ELSE IF AnyState("FAILURE") THEN "FAILURE"
                        ELSE "UNKNOWN"

C27_Witness ==
    /\ ProgressReturned
    /\ Len(Results) = 3
    /\ api.response.completed = 1
    /\ api.response.failed = 1
    /\ AnyState("PENDING") /\ AnyState("FAILURE")
    /\ api.response.state = "PENDING"
    /\ ~api.response.ready

(***************************************************************************)
(* C31.  get_css_selector for a non-root element at index i among its      *)
(* siblings appends :nth-of-type(k) exactly when more than one sibling     *)
(* before index i has the same tag, k being the number of same-tag         *)
(* siblings at indices 0..i; the root element never gets a parent prefix   *)
(* or an nth-of-type qualifier.                                            *)
(***************************************************************************)
\* The same-tag siblings that precede `node`.
PrecedingSameTag(d, node) == {j \in SameTagSiblings(d, node) : j < node}

C31_NthWhenTwoPrecede ==
    dom.removed = {} =>
        \A i \in 1..Len(tr.map) :
            LET r == tr.map[i] IN
            IF r.node = 1
            THEN r.css_selector = <<Segment(dom.kind[1], 0)>>
            ELSE OwnSegment(r.css_selector).nth =
                    IF Cardinality(PrecedingSameTag(dom, r.node)) > 1
                    THEN SameTagRank(dom, r.node)
                    ELSE 0

C31_Witness ==
    /\ Returned
    /\ \E i, j \in 1..Len(tr.result) :
        /\ OwnSegment(tr.result[i].css_selector).nth = 3
        /\ tr.result[j].node # 1
        /\ Cardinality(PrecedingSameTag(dom, tr.result[j].node)) = 1
        /\ OwnSegment(tr.result[j].css_selector).nth = 0

(***************************************************************************)
(* C32.  With capture_invisible_elements = False get_elements never        *)
(* queries or recurses into the children of an invisible element, so no    *)
(* record of the output has an invisible element among its DOM ancestors.  *)
(***************************************************************************)
\* The proper ancestors of `node`.
Ancestors(d, node) == {a \in 1..d.n : a # node /\ node \in Descendants(d, a)}

C32_InvisibleNotExpanded ==
    (tr.pc \in {"run", "done"} /\ ~tr.capture_invisible_elements) =>
        /\ \A k \in 1..Len(tr.stack) :
              tr.stack[k].stage \in {"children", "loop", "call"}
                  => dom.displayed[tr.stack[k].node]
        /\ \A v \in tr.visited : v # 1 => dom.displayed[dom.parent[v]]
        /\ \A k \in 1..Len(tr.result) :
              \A a \in Ancestors(dom, tr.result[k].node) : dom.displayed[a]

C32_Witness ==
    /\ Returned
    /\ ~tr.capture_invisible_elements
    /\ Len(tr.result) = 1
    /\ \E a \in 2..dom.n :
        /\ ~dom.displayed[a]
        /\ ChildNodes(dom, a) # {}
        /\ a \in tr.visited
        /\ \A c \in ChildNodes(dom, a) : dom.displayed[c] /\ c \notin tr.visited

(***************************************************************************)
(* C33.  get_elements terminates on every finite set of elements: every    *)
(* identity has its children queried at most once per pass, because its    *)
(* record is stored before its children are visited, and the pass ends.    *)
(***************************************************************************)
PassEnded == tr.pc \in {"done", "raised"}

QueriedOnce ==
    /\ tr.pc # "none" =>
          \A j, k \in 1..Len(tr.queried) : j # k => tr.queried[j] # tr.queried[k]
    /\ Running /\ Top.stage = "children" => InMap(tr.map, Top.element_id)

C34_RotateAlwaysAdvances ==
    [][(RotateDriver /\ current_driver_index < NProxies)
          => /\ current_driver_index' = current_driver_index + 1
             /\ result'.raised = None]_vars

(***************************************************************************)
(* C35.  __del__ never instantiates a connection: destroying a session     *)
(* whose current endpoint has no live connection creates no new browser    *)
(* connection.                                                             *)
(***************************************************************************)
C35_DelInstantiatesNothing == [][Del => Len(drivers') = Len(drivers)]_vars

(***************************************************************************)
(* C36.  In every non-empty result of get_elements the root element's      *)
(* record is the only record with parent_id None, no record is its own     *)
(* parent, and following parent_id from any record reaches the root        *)
(* record in finitely many steps.                                          *)
(***************************************************************************)
\* Following parent_id from the record with identity `id` for at most `fuel`
\* steps ends at a record without parent whose element is the root.
RECURSIVE ReachesRoot(_, _, _)
ReachesRoot(list, id, fuel) ==
    /\ id \in Ids(list)
    /\ LET r == MapGet(list, id) IN
       IF r.parent_id = 0 THEN r.node = 1
       ELSE fuel > 0 /\ ReachesRoot(list, r.parent_id, fuel - 1)

C36_ParentLinksTree ==
    (Returned /\ Len(tr.result) > 0) =>
        /\ \A k \in 1..Len(tr.result) :
              /\ tr.result[k].parent_id = 0 <=> tr.result[k].node = 1
              /\ tr.result[k].parent_id # tr.result[k].id
              /\ ReachesRoot(tr.result, tr.result[k].id, Len(tr.result))
        /\ \E k \in 1..Len(tr.result) : tr.result[k].node = 1

(***************************************************************************)
(* C37.  For every non-root record r returned by get_elements, records     *)
(* whose identity was reached again through the map from another parent    *)
(* included, r.css_selector is the css_selector of the record whose id is  *)
(* r.parent_id followed by r's own segment; a record's parent_id and       *)
(* selector are not changed after the record's first visit.                *)
(***************************************************************************)
SelectorFollowsParent ==
    Returned =>
        \A k \in 1..Len(tr.result) :
            LET r == tr.result[k] IN
            r.parent_id # 0 =>
                r.css_selector =
                    MapGet(tr.result, r.parent_id).css_selector
                        \o <<OwnSegment(r.css_selector)>>

LinkKept ==
    tr'.pc \in {"run", "done"} =>
        \A k \in 1..Len(tr.map) :
            /\ tr'.map[k].css_selector = tr.map[k].css_selector
            /\ tr.map[k].parent_id # 0 => tr'.map[k].parent_id = tr.map[k].parent_id

C37_SelectorMatchesParent == [](SelectorFollowsParent) /\ [][LinkKept]_vars

(***************************************************************************)
(* C38.  Within one pass of get_elements any two distinct records emitted  *)
(* for children of the same parent have different css_selector values.     *)
(***************************************************************************)
C38_SiblingSelectorsDiffer ==
    Returned =>
        \A j, k \in 1..Len(tr.result) :
            (/\ j # k
             /\ tr.result[j].node # 1 /\ tr.result[k].node # 1
             /\ dom.parent[tr.result[j].node] = dom.parent[tr.result[k].node])
                => tr.result[j].css_selector # tr.result[k].css_selector

(***************************************************************************)
(* C39.  Capture units scheduled from distinct entries never write to the  *)
(* same output directory: _schedule_screenshot_task gives a different      *)
(* output path to each scheduled task.                                     *)
(***************************************************************************)
C39_DistinctOutputPaths ==
    Scheduled => api.output_path[1] # api.output_path[2]

====
